---- MODULE Spec2Model ----
(***************************************************************************)
(* Subtitle segmentation and timing synchronisation of the short-video     *)
(* generator: the transcript-to-cue path of subtitle_service.py, the CTA   *)
(* offsetting of audio_service.py, the timeline composition of main.py /   *)
(* video_service.py, and the merging of voiceover and CTA cues in          *)
(* word_sync_service.py, enhanced_subtitle_service.py and the FFmpeg path. *)
(*                                                                         *)
(* Times are exact rationals <<n, d>> (d > 0, lowest terms): Python's      *)
(* float arithmetic is modelled by real arithmetic, rounding is not.       *)
(* Texts are sequences of one-character strings, so that strip, split,     *)
(* join and len are computed and not assumed.                              *)
(* cache is the transcription_cache directory: cache key -> stored JSON.   *)
(***************************************************************************)
EXTENDS Integers, Sequences, FiniteSets, TLC

VARIABLES pc, args, ret, cache

vars == <<pc, args, ret, cache>>

\* ------------------------------------------------------------------ bounds

\* Longest word list / segment list handed to a function.
MaxLen == 3
\* Latest time stamp (seconds) of an input word or segment.
MaxTime == 1

\* ------------------------------------------------------- float arithmetic

Abs(x) == IF x < 0 THEN -x ELSE x

RECURSIVE GCD(_, _)
GCD(a, b) == IF b = 0 THEN a ELSE GCD(b, a % b)

\* The rational n/d in lowest terms with a positive denominator.
Rat(n, d) ==
    LET g == GCD(Abs(n), Abs(d))
        s == IF d < 0 THEN -1 ELSE 1
    IN  <<(s * n) \div g, (s * d) \div g>>

Sec(k) == <<k, 1>>

Add(a, b) == Rat(a[1] * b[2] + b[1] * a[2], a[2] * b[2])
Sub(a, b) == Rat(a[1] * b[2] - b[1] * a[2], a[2] * b[2])
Mul(a, b) == Rat(a[1] * b[1], a[2] * b[2])
Div(a, b) == Rat(a[1] * b[2], a[2] * b[1])
Lt(a, b) == a[1] * b[2] < b[1] * a[2]
Le(a, b) == a[1] * b[2] <= b[1] * a[2]
Gt(a, b) == Lt(b, a)
Ge(a, b) == Le(b, a)
Min(a, b) == IF Le(a, b) THEN a ELSE b
Max(a, b) == IF Ge(a, b) THEN a ELSE b

Zero == Sec(0)

\* ------------------------------------------------------------- str methods

RECURSIVE lstrip(_)
lstrip(s) ==
    IF s = <<>> THEN s
    ELSE IF Head(s) = " " THEN lstrip(Tail(s)) ELSE s

RECURSIVE rstrip(_)
rstrip(s) ==
    IF s = <<>> THEN s
    ELSE IF s[Len(s)] = " " THEN rstrip(SubSeq(s, 1, Len(s) - 1)) ELSE s

\* str.strip()
strip(s) == rstrip(lstrip(s))

\* The first whitespace-free run of s (s starts with a non-space).
RECURSIVE first_token(_)
first_token(s) ==
    IF s = <<>> \/ Head(s) = " " THEN <<>>
    ELSE <<Head(s)>> \o first_token(Tail(s))

\* str.split(): the whitespace-separated, non-empty tokens of s.
RECURSIVE split(_)
split(s) ==
    LET t == lstrip(s)
    IN  IF t = <<>> THEN <<>>
        ELSE LET w == first_token(t)
             IN  <<w>> \o split(SubSeq(t, Len(w) + 1, Len(t)))

\* ' '.join(parts)
RECURSIVE join(_)
join(parts) ==
    IF parts = <<>> THEN <<>>
    ELSE IF Len(parts) = 1 THEN parts[1]
    ELSE parts[1] \o <<" ">> \o join(Tail(parts))

\* Python's None where a time is expected.
None == <<>>

\* The transcription_cache directory without files.
NoCache == <<>>

\* ------------------------------------------- subtitle_service: segmenting

\* should_end, with the > of the word-count test slipped to a later word.
should_end_late(word_count, test_text, test_duration, max_chars, max_duration, max_words) ==
    \/ word_count > max_words
    \/ Len(test_text) > max_chars
    \/ Gt(test_duration, max_duration)

\* should_end without the duration test.
should_end_untimed(word_count, test_text, test_duration, max_chars, max_duration, max_words) ==
    \/ word_count >= max_words
    \/ Len(test_text) > max_chars

\* The test that closes the current cue before a word is added.
should_end(word_count, test_text, test_duration, max_chars, max_duration, max_words) ==
    \/ word_count >= max_words
    \/ Len(test_text) > max_chars
    \/ Gt(test_duration, max_duration)

\* start_new_segment that forgets to seed the new cue with the word.
start_new_segment_empty(segments, word, word_start, word_end) ==
    [segments |-> segments, current_start |-> word_start,
     current_text |-> <<>>, current_end |-> word_end, word_count |-> 1]

\* The locals after "Start new segment": the cue restarts at the word.
start_new_segment(segments, word, word_start, word_end) ==
    [segments |-> segments, current_start |-> word_start,
     current_text |-> word, current_end |-> word_end, word_count |-> 1]

\* One iteration of the loop of split_segment_by_words over word_data; st
\* holds the function's locals.
split_segment_by_words_step(st, word_data, max_chars, max_duration, max_words) ==
    LET word == strip(word_data.word)
        word_start == word_data.start
        word_end == word_data.end
        test_text == st.current_text \o <<" ">> \o word
        test_duration == Sub(word_end, st.current_start)
    IN  IF word = <<>> THEN st
        ELSE IF st.current_start = None THEN
            [st EXCEPT !.current_start = word_start, !.current_text = word,
                       !.current_end = word_end, !.word_count = 1]
        ELSE IF should_end(st.word_count, test_text, test_duration,
                           max_chars, max_duration, max_words) THEN
            start_new_segment(
                IF strip(st.current_text) # <<>>
                THEN Append(st.segments,
                            [start |-> st.current_start, end |-> st.current_end,
                             text |-> strip(st.current_text)])
                ELSE st.segments,
                word, word_start, word_end)
        ELSE
            [st EXCEPT !.current_text = test_text, !.current_end = word_end,
                       !.word_count = st.word_count + 1]

RECURSIVE split_segment_by_words_loop(_, _, _, _, _)
split_segment_by_words_loop(st, words, max_chars, max_duration, max_words) ==
    IF words = <<>> THEN st
    ELSE split_segment_by_words_loop(
             split_segment_by_words_step(st, Head(words), max_chars,
                                         max_duration, max_words),
             Tail(words), max_chars, max_duration, max_words)

split_segment_by_words(words, max_chars, max_duration, max_words) ==
    LET st0 == [segments |-> <<>>, current_text |-> <<>>,
                current_start |-> None, current_end |-> None, word_count |-> 0]
        st == split_segment_by_words_loop(st0, words, max_chars, max_duration,
                                          max_words)
    IN  IF strip(st.current_text) # <<>>
        THEN Append(st.segments,
                    [start |-> st.current_start, end |-> st.current_end,
                     text |-> strip(st.current_text)])
        ELSE st.segments

\* A cue of split_long_segment that is given the whole segment's duration.
long_segment_cue_whole(current_words, words_processed, total_words, start_time, total_duration) ==
    LET segment_start ==
            Add(start_time,
                Mul(Rat(words_processed, total_words), total_duration))
    IN  [start |-> segment_start,
         end |-> Add(segment_start, total_duration),
         text |-> join(current_words)]

\* The cue split_long_segment emits for current_words: its share of the
\* segment's duration, after the share of the words already processed.
long_segment_cue(current_words, words_processed, total_words, start_time, total_duration) ==
    LET segment_duration ==
            Mul(Rat(Len(current_words), total_words), total_duration)
        segment_start ==
            Add(start_time,
                Mul(Rat(words_processed, total_words), total_duration))
    IN  [start |-> segment_start,
         end |-> Add(segment_start, segment_duration),
         text |-> join(current_words)]

\* The loop of split_long_segment from word i on; st holds the locals.
RECURSIVE split_long_segment_loop(_, _, _, _, _, _)
split_long_segment_loop(st, words, i, start_time, total_duration, max_words) ==
    IF i > Len(words) THEN st
    ELSE split_long_segment_loop(
             IF st.word_count < max_words
             THEN [st EXCEPT !.current_words = Append(st.current_words, words[i]),
                             !.word_count = st.word_count + 1]
             ELSE [segments |->
                       Append(st.segments,
                              long_segment_cue(st.current_words,
                                               st.words_processed, Len(words),
                                               start_time, total_duration)),
                   words_processed |->
                       st.words_processed + Len(st.current_words),
                   current_words |-> <<words[i]>>,
                   word_count |-> 1],
             words, i + 1, start_time, total_duration, max_words)

\* split_long_segment whose remaining words start again at the segment start.
split_long_segment_restarted(text, start_time, end_time, max_chars, max_words) ==
    LET words == split(text)
        st == split_long_segment_loop(
                  [segments |-> <<>>, current_words |-> <<>>,
                   word_count |-> 0, words_processed |-> 0],
                  words, 1, start_time, Sub(end_time, start_time), max_words)
    IN  IF words = <<>> THEN <<>>
        ELSE IF st.current_words # <<>>
        THEN Append(st.segments,
                    [start |-> start_time, end |-> end_time,
                     text |-> join(st.current_words)])
        ELSE st.segments

split_long_segment(text, start_time, end_time, max_chars, max_words) ==
    LET words == split(text)
        total_duration == Sub(end_time, start_time)
        total_words == Len(words)
        st == split_long_segment_loop(
                  [segments |-> <<>>, current_words |-> <<>>,
                   word_count |-> 0, words_processed |-> 0],
                  words, 1, start_time, total_duration, max_words)
    IN  IF words = <<>> THEN <<>>
        ELSE IF st.current_words # <<>>
        THEN Append(st.segments,
                    [start |-> Add(start_time,
                                   Mul(Rat(st.words_processed, total_words),
                                       total_duration)),
                     end |-> end_time,
                     text |-> join(st.current_words)])
        ELSE st.segments

\* Synthetic pacing constants of create_segments_from_a4f_result.
words_per_second == Rat(22, 10)
min_segment_duration == Rat(15, 10)
segment_gap == Rat(2, 10)

\* The cue create_segments_from_a4f_result emits for current_words when it is
\* at word index i (0-based) with the clock at current_time.
a4f_cue(current_words, i, current_time) ==
    LET duration == Max(min_segment_duration,
                        Div(Sec(Len(current_words)), words_per_second))
        start_time == IF i > 0 THEN Add(current_time, segment_gap)
                      ELSE current_time
    IN  [start |-> start_time, end |-> Add(start_time, duration),
         text |-> strip(join(current_words))]

\* The loop of create_segments_from_a4f_result from word i (0-based) on.
RECURSIVE a4f_loop(_, _, _, _)
a4f_loop(st, words, i, max_words) ==
    IF i >= Len(words) THEN st
    ELSE LET word == words[i + 1]
             st1 == IF st.word_count < max_words
                    THEN [st EXCEPT
                             !.current_words = Append(st.current_words, word),
                             !.word_count = st.word_count + 1]
                    ELSE LET cue == a4f_cue(st.current_words, i, st.current_time)
                         IN  [segments |-> Append(st.segments, cue),
                              current_time |-> cue.end,
                              current_words |-> <<word>>,
                              word_count |-> 1]
             st2 == IF i = Len(words) - 1 /\ st1.current_words # <<>>
                    THEN [st1 EXCEPT
                             !.segments =
                                 Append(st1.segments,
                                        a4f_cue(st1.current_words, i,
                                                st1.current_time))]
                    ELSE st1
         IN  a4f_loop(st2, words, i + 1, max_words)

create_segments_from_a4f_result(transcription_result, max_chars_per_segment, max_words) ==
    IF transcription_result = None THEN <<>>
    ELSE LET full_text == strip(transcription_result.text)
             words == split(full_text)
         IN  IF full_text = <<>> THEN <<>>
             ELSE IF words = <<>>
             THEN <<[start |-> Zero, end |-> Sec(10), text |-> full_text]>>
             ELSE a4f_loop([segments |-> <<>>, current_time |-> Zero,
                            current_words |-> <<>>, word_count |-> 0],
                           words, 0, max_words).segments

\* The cues create_segments_from_whisper_timestamps adds for one segment.
whisper_segment_cues(segment, max_chars_per_segment, max_duration, max_words) ==
    LET text == strip(segment.text)
    IN  IF text = <<>> THEN <<>>
        ELSE IF segment.words # <<>>
        THEN split_segment_by_words(segment.words, max_chars_per_segment,
                                    max_duration, max_words)
        ELSE split_long_segment(text, segment.start, segment.end,
                                max_chars_per_segment, max_words)

RECURSIVE whisper_segments_loop(_, _, _, _)
whisper_segments_loop(whisper_segments, max_chars_per_segment, max_duration, max_words) ==
    IF whisper_segments = <<>> THEN <<>>
    ELSE whisper_segment_cues(Head(whisper_segments), max_chars_per_segment,
                              max_duration, max_words)
         \o whisper_segments_loop(Tail(whisper_segments),
                                  max_chars_per_segment, max_duration,
                                  max_words)

create_segments_from_whisper_timestamps(whisper_result, max_chars_per_segment, max_duration, max_words) ==
    IF whisper_result.segments = <<>> THEN <<>>
    ELSE whisper_segments_loop(whisper_result.segments, max_chars_per_segment,
                               max_duration, max_words)

\* create_segments_from_whisper_result that forgets the guard on None and
\* answers with a placeholder cue.
create_segments_from_whisper_result_unguarded(whisper_result, max_chars_per_segment, max_duration, max_words) ==
    IF whisper_result = None
    THEN <<[start |-> Zero, end |-> Sec(10), text |-> <<"?">>]>>
    ELSE IF whisper_result.segments # <<>>
    THEN create_segments_from_whisper_timestamps(
             whisper_result, max_chars_per_segment, max_duration, max_words)
    ELSE create_segments_from_a4f_result(whisper_result,
                                         max_chars_per_segment, max_words)

create_segments_from_whisper_result(whisper_result, max_chars_per_segment, max_duration, max_words) ==
    IF whisper_result = None THEN <<>>
    ELSE IF whisper_result.segments # <<>>
    THEN create_segments_from_whisper_timestamps(
             whisper_result, max_chars_per_segment, max_duration, max_words)
    ELSE create_segments_from_a4f_result(whisper_result,
                                         max_chars_per_segment, max_words)

\* Defaults of create_segments_from_whisper_result.
default_max_chars_per_segment == 45
default_max_duration == Sec(5)
default_max_words == 3

\* ------------------------------------------------ audio_service: CTA cues

\* offset_segment that shifts the start and forgets the end.
offset_segment_start_only(segment, cta_start_time) ==
    [start |-> Add(segment.start, cta_start_time), end |-> segment.end,
     text |-> segment.text, type |-> "cta"]

\* A copy of segment shifted by cta_start_time and marked as CTA.
offset_segment(segment, cta_start_time) ==
    [start |-> Add(segment.start, cta_start_time),
     end |-> Add(segment.end, cta_start_time),
     text |-> segment.text, type |-> "cta"]

\* cta_exists: cta_path is set and the file exists; cta_result: what
\* transcribe_with_whisper returns for it.
transcribe_cta_audio(cta_exists, cta_result, cta_start_time) ==
    IF ~cta_exists THEN <<>>
    ELSE IF cta_result = None THEN <<>>
    ELSE LET cta_segments ==
                 create_segments_from_whisper_result(
                     cta_result, default_max_chars_per_segment,
                     default_max_duration, default_max_words)
         IN  [i \in 1..Len(cta_segments) |->
                 offset_segment(cta_segments[i], cta_start_time)]

\* ------------------------------------------------- main: timeline composition

\* The playback speed-up of the audio (atempo=1.25).
speed_factor == Rat(125, 100)
\* The shortest a cue is shown, in seconds.
min_subtitle_duration == Rat(1, 2)

\* scale_cue that scales the start and leaves the end as it was.
scale_cue_start_only(segment, scale_factor) ==
    [start |-> Mul(segment.start, scale_factor), end |-> segment.end,
     text |-> segment.text]

\* One cue of scale_segments_to_duration's result.
scale_cue(segment, scale_factor) ==
    [start |-> Mul(segment.start, scale_factor),
     end |-> Mul(segment.end, scale_factor),
     text |-> segment.text]

\* scale_segments_to_duration that also applies the playback speed-up.
scale_segments_to_duration_sped(segments, target_duration) ==
    IF segments = <<>> THEN segments
    ELSE LET estimated_duration == segments[Len(segments)].end
         IN  IF Le(estimated_duration, Zero) THEN segments
             ELSE LET scale_factor ==
                          Div(Div(target_duration, estimated_duration),
                              speed_factor)
                  IN  [i \in 1..Len(segments) |->
                          scale_cue(segments[i], scale_factor)]

\* scale_segments_to_duration that gives up on cues it cannot scale.
scale_segments_to_duration_dropping(segments, target_duration) ==
    IF segments = <<>> THEN segments
    ELSE LET estimated_duration == segments[Len(segments)].end
         IN  IF Le(estimated_duration, Zero) THEN <<>>
             ELSE LET scale_factor == Div(target_duration, estimated_duration)
                  IN  [i \in 1..Len(segments) |->
                          scale_cue(segments[i], scale_factor)]

scale_segments_to_duration(segments, target_duration) ==
    IF segments = <<>> THEN segments
    ELSE LET estimated_duration == segments[Len(segments)].end
         IN  IF Le(estimated_duration, Zero) THEN segments
             ELSE LET scale_factor == Div(target_duration, estimated_duration)
                  IN  [i \in 1..Len(segments) |->
                          scale_cue(segments[i], scale_factor)]

\* The speed and minimum-duration adjustment of one cue in
\* create_synchronized_subtitles; offset is 0 for a voice cue and
\* cta_start_time for a CTA cue.
speed_adjust(seg, offset) ==
    LET start == Add(Div(seg.start, speed_factor), offset)
        end == Add(Div(seg.end, speed_factor), offset)
    IN  [seg EXCEPT !.start = start,
                    !.end = IF Lt(Sub(end, start), min_subtitle_duration)
                            THEN Add(start, min_subtitle_duration)
                            ELSE end]

\* keep_within that drops a cue running past the total instead of trimming.
keep_within_strict(seg, total_audio_duration) ==
    IF Lt(seg.start, total_audio_duration)
           /\ Le(seg.end, total_audio_duration) /\ Gt(seg.end, seg.start)
    THEN <<seg>>
    ELSE <<>>

\* keep_within that drops late cues but does not trim the end.
keep_within_untrimmed(seg, total_audio_duration) ==
    IF Lt(seg.start, total_audio_duration) /\ Gt(seg.end, seg.start)
    THEN <<seg>>
    ELSE <<>>

\* The bounds filter of create_synchronized_subtitles on one cue: the cue
\* trimmed to total_audio_duration, or nothing.
keep_within(seg, total_audio_duration) ==
    IF Lt(seg.start, total_audio_duration)
    THEN LET end == IF Gt(seg.end, total_audio_duration)
                    THEN total_audio_duration ELSE seg.end
         IN  IF Gt(end, seg.start) THEN <<[seg EXCEPT !.end = end]>>
             ELSE <<>>
    ELSE <<>>

RECURSIVE valid_segments(_, _)
valid_segments(segments, total_audio_duration) ==
    IF segments = <<>> THEN <<>>
    ELSE keep_within(Head(segments), total_audio_duration)
         \o valid_segments(Tail(segments), total_audio_duration)

CallToActionText ==
    <<"[", "C", "a", "l", "l", " ", "t", "o", " ", "A", "c", "t", "i", "o",
      "n", "]">>

\* The voice cues of create_synchronized_subtitles.
synchronized_voice_segments(voice_transcription, voice_duration, max_words) ==
    IF voice_transcription = None THEN <<>>
    ELSE LET voice_segments ==
                 scale_segments_to_duration(
                     create_segments_from_whisper_result(
                         voice_transcription, default_max_chars_per_segment,
                         default_max_duration, max_words),
                     voice_duration)
         IN  [i \in 1..Len(voice_segments) |->
                 speed_adjust(voice_segments[i], Zero)]

\* The CTA cues of create_synchronized_subtitles.
synchronized_cta_segments(cta_exists, cta_transcription, cta_duration, cta_start_time, max_words) ==
    IF ~cta_exists THEN <<>>
    ELSE IF cta_transcription = None
    THEN <<[start |-> cta_start_time,
            end |-> Add(cta_start_time, cta_duration),
            text |-> CallToActionText]>>
    ELSE LET cta_segments ==
                 scale_segments_to_duration(
                     create_segments_from_whisper_result(
                         cta_transcription, default_max_chars_per_segment,
                         default_max_duration, max_words),
                     cta_duration)
         IN  [i \in 1..Len(cta_segments) |->
                 speed_adjust(cta_segments[i], cta_start_time)]

\* voice_audio_duration, cta_audio_duration: the durations of the loaded
\* audio files; the transcriptions: what transcribe_with_whisper returns.
create_synchronized_subtitles(voice_audio_duration, voice_transcription, cta_exists, cta_audio_duration, cta_transcription, max_words) ==
    LET voice_duration == Div(voice_audio_duration, speed_factor)
        cta_duration == Div(cta_audio_duration, speed_factor)
        segments ==
            synchronized_voice_segments(voice_transcription, voice_duration,
                                        max_words)
            \o synchronized_cta_segments(cta_exists, cta_transcription,
                                         cta_duration, voice_duration,
                                         max_words)
        total_audio_duration ==
            IF cta_exists THEN Add(voice_duration, cta_duration)
            ELSE voice_duration
    IN  valid_segments(segments, total_audio_duration)

\* The adjustment of one cue in create_video_with_subtitles.
adjust_segment(seg, final_duration) ==
    LET seg_start == Div(seg.start, speed_factor)
        seg_end0 == Div(seg.end, speed_factor)
        seg_end1 == IF Gt(seg_end0, final_duration) THEN final_duration
                    ELSE seg_end0
        seg_end == IF Lt(Sub(seg_end1, seg_start), min_subtitle_duration)
                   THEN Min(Add(seg_start, min_subtitle_duration),
                            final_duration)
                   ELSE seg_end1
    IN  IF Ge(seg_start, final_duration) THEN <<>>
        ELSE IF Gt(seg_end, seg_start)
        THEN <<[start |-> seg_start, end |-> seg_end, text |-> seg.text]>>
        ELSE <<>>

\* The cue list create_video_with_subtitles renders: subtitle_segments
\* filtered and adjusted to final_duration.
RECURSIVE adjusted_segments(_, _)
adjusted_segments(subtitle_segments, final_duration) ==
    IF subtitle_segments = <<>> THEN <<>>
    ELSE adjust_segment(Head(subtitle_segments), final_duration)
         \o adjusted_segments(Tail(subtitle_segments), final_duration)

\* ------------------------------------- video_service: MoviePy subtitle clips

\* moviepy_clip without the clipping of the end to final_duration.
moviepy_clip_unclipped(seg, final_duration) ==
    IF strip(seg.text) = <<>> THEN <<>>
    ELSE IF Ge(seg.start, final_duration) THEN <<>>
    ELSE IF Le(Sub(seg.end, seg.start), Zero) THEN <<>>
    ELSE <<[start |-> seg.start, end |-> seg.end, text |-> strip(seg.text)]>>

\* The timing validation of create_video_with_subtitles_moviepy on one cue:
\* the clip shown (from seg.start for actual_duration), or nothing.
moviepy_clip(seg, final_duration) ==
    LET actual_end == Min(seg.end, final_duration)
        actual_duration == Sub(actual_end, seg.start)
    IN  IF strip(seg.text) = <<>> THEN <<>>
        ELSE IF Ge(seg.start, final_duration) THEN <<>>
        ELSE IF Le(actual_duration, Zero) THEN <<>>
        ELSE <<[start |-> seg.start,
                end |-> Add(seg.start, actual_duration),
                text |-> strip(seg.text)]>>

RECURSIVE subtitle_clips(_, _)
subtitle_clips(subtitle_segments, final_duration) ==
    IF subtitle_segments = <<>> THEN <<>>
    ELSE moviepy_clip(Head(subtitle_segments), final_duration)
         \o subtitle_clips(Tail(subtitle_segments), final_duration)

\* ------------------------------ main: timing from the transcription text

\* str.lower()
lower(s) ==
    LET UpperCase ==
            <<"A", "B", "C", "D", "E", "F", "G", "H", "I", "J", "K", "L", "M",
              "N", "O", "P", "Q", "R", "S", "T", "U", "V", "W", "X", "Y", "Z">>
        LowerCase ==
            <<"a", "b", "c", "d", "e", "f", "g", "h", "i", "j", "k", "l", "m",
              "n", "o", "p", "q", "r", "s", "t", "u", "v", "w", "x", "y", "z">>
    IN  [k \in 1..Len(s) |->
            IF \E u \in 1..26 : UpperCase[u] = s[k]
            THEN LowerCase[CHOOSE u \in 1..26 : UpperCase[u] = s[k]]
            ELSE s[k]]

\* str.endswith(suffixes) for one-character suffixes.
endswith(s, suffixes) == s # <<>> /\ s[Len(s)] \in suffixes

\* The words after which create_word_level_synchronized_timing may break.
BreakWords ==
    {<<"a", "n", "d">>, <<"b", "u", "t">>, <<"o", "r">>, <<"s", "o">>,
     <<"t", "h", "e", "n">>, <<"n", "o", "w">>, <<"w", "h", "e", "n">>,
     <<"i", "f">>, <<"b", "e", "c", "a", "u", "s", "e">>}

target_segment_duration == Sec(4)

\* The least length a cue is given: 2.0 s.
min_timing_duration == Sec(2)

\* int(x) of a float x >= 0.
floor(x) == x[1] \div x[2]

\* words_per_segment = min(max_words, max(1, int(words per second * 4.0)))
words_per_segment(total_words, duration, max_words) ==
    LET estimate == floor(Mul(Div(Sec(total_words), duration),
                              target_segment_duration))
        at_least_one == IF estimate > 1 THEN estimate ELSE 1
    IN  IF max_words < at_least_one THEN max_words ELSE at_least_one

\* The end of the cue that is closed at expected_time.
segment_end_time(expected_time, current_start_time, duration) ==
    LET end == Min(expected_time, duration)
    IN  IF Lt(Sub(end, current_start_time), min_timing_duration)
        THEN Min(Add(current_start_time, min_timing_duration), duration)
        ELSE end

\* One iteration of the loop of create_word_level_synchronized_timing over
\* words[i]; st holds the function's locals.
synchronized_timing_step(st, words, i, duration, per_segment) ==
    LET word == words[i]
        current_words == Append(st.current_words, word)
        word_count == st.word_count + 1
        expected_time == Mul(Rat(i, Len(words)), duration)
        should_end_segment ==
            \/ endswith(word, {".", "!", "?"})
            \/ endswith(word, {",", ";", ":"}) /\ Len(current_words) >= 2
            \/ word_count >= per_segment
            \/ word_count >= 2 /\ lower(word) \in BreakWords
            \/ Ge(Sub(expected_time, st.current_start_time),
                  target_segment_duration)
    IN  IF should_end_segment \/ i = Len(words)
        THEN LET end == segment_end_time(expected_time,
                                         st.current_start_time, duration)
             IN  [segments |->
                      Append(st.segments,
                             [start |-> st.current_start_time, end |-> end,
                              text |-> join(current_words)]),
                  current_words |-> <<>>,
                  current_start_time |-> end,
                  word_count |-> 0]
        ELSE [st EXCEPT !.current_words = current_words,
                        !.word_count = word_count]

RECURSIVE synchronized_timing_loop(_, _, _, _, _)
synchronized_timing_loop(st, words, i, duration, per_segment) ==
    IF i > Len(words) THEN st
    ELSE synchronized_timing_loop(
             synchronized_timing_step(st, words, i, duration, per_segment),
             words, i + 1, duration, per_segment)

\* The final pass: a cue that ends after the next one starts ends there.
without_overlaps(segments) ==
    [i \in 1..Len(segments) |->
        IF i < Len(segments) /\ Gt(segments[i].end, segments[i + 1].start)
        THEN [segments[i] EXCEPT !.end = segments[i + 1].start]
        ELSE segments[i]]

\* duration = 0 raises ZeroDivisionError, which the function catches.
create_word_level_synchronized_timing(text, duration, max_words) ==
    LET words == split(strip(text))
    IN  IF strip(text) = <<>> \/ words = <<>> THEN <<>>
        ELSE IF duration = Zero THEN <<>>
        ELSE without_overlaps(
                 synchronized_timing_loop(
                     [segments |-> <<>>, current_words |-> <<>>,
                      current_start_time |-> Zero, word_count |-> 0],
                     words, 1, duration,
                     words_per_segment(Len(words), duration,
                                       max_words)).segments)

\* ---------------------------------------- app: the /generate-subtitles route

\* int(s) accepts an optional sign followed by decimal digits (of the
\* spellings int() knows, the ones a form field is given here).
Digits == <<"0", "1", "2", "3", "4", "5", "6", "7", "8", "9">>

is_digit(c) == \E k \in 1..10 : Digits[k] = c

digit_value(c) == (CHOOSE k \in 1..10 : Digits[k] = c) - 1

RECURSIVE digits_value(_)
digits_value(s) ==
    IF s = <<>> THEN 0
    ELSE 10 * digits_value(SubSeq(s, 1, Len(s) - 1)) + digit_value(s[Len(s)])

is_int(s) ==
    LET body == IF s # <<>> /\ s[1] = "-" THEN Tail(s) ELSE s
    IN  body # <<>> /\ \A k \in 1..Len(body) : is_digit(body[k])

int(s) ==
    IF s[1] = "-" THEN 0 - digits_value(Tail(s)) ELSE digits_value(s)

\* generate_subtitles: has_audio says whether the request carries an audio
\* file, max_words_field is the form field (None when absent), transcription
\* what transcribe_with_whisper returns.  The response's status, the cues
\* that are serialized, and the max_words values the segmenter ran with.
generate_subtitles(has_audio, max_words_field, transcription) ==
    IF ~has_audio
    THEN [status |-> 400, segments |-> <<>>, segmented_with |-> <<>>]
    ELSE IF max_words_field # None /\ ~is_int(max_words_field)
    THEN [status |-> 500, segments |-> <<>>, segmented_with |-> <<>>]
    ELSE LET max_words == IF max_words_field = None THEN default_max_words
                          ELSE int(max_words_field)
             segments == create_segments_from_whisper_result(
                             transcription, default_max_chars_per_segment,
                             default_max_duration, max_words)
         IN  [status |-> IF segments = <<>> THEN 500 ELSE 200,
              segments |-> segments,
              segmented_with |-> <<max_words>>]

\* ------------------------------------------ audio_service: the audio mixer

\* Voice duration assumed when the voice audio cannot be loaded at all.
default_voice_duration == Sec(40)

\* mix_audio_with_bgm_and_cta (background music does not change durations:
\* it is cut to the voice's length).  cta_load says how loading and
\* concatenating the CTA went: "ok", "open_fails" (AudioFileClip raises) or
\* "concat_fails" (raises after the clip was loaded).  outcome says how far
\* the function got: "mixed" (the mix was saved), "fallback" (voice only),
\* "last_resort" (the original file) or "unreadable" (the voice cannot be
\* loaded either).  final_audio lists the clips of the returned audio.
mix_audio_with_bgm_and_cta(voice_duration, cta_path, cta_exists, cta_load, cta_duration, outcome) ==
    LET cta_mixed == cta_path /\ cta_exists /\ cta_load = "ok"
        cta_loaded == cta_path /\ cta_exists /\ cta_load # "open_fails"
        final_duration == IF cta_mixed THEN Add(voice_duration, cta_duration)
                          ELSE voice_duration
        fallback_duration == IF outcome = "unreadable"
                             THEN default_voice_duration ELSE voice_duration
    IN  IF outcome = "mixed"
        THEN [final_audio |-> IF cta_mixed THEN <<"voice", "cta">>
                              ELSE <<"voice">>,
              duration |-> final_duration,
              timing_info |->
                  [voice_duration |-> voice_duration,
                   cta_start |-> IF cta_path /\ cta_exists
                                 THEN voice_duration ELSE None,
                   cta_duration |-> IF cta_loaded THEN cta_duration ELSE Zero,
                   total_duration |-> final_duration]]
        ELSE [final_audio |-> <<"voice">>,
              duration |-> fallback_duration,
              timing_info |->
                  [voice_duration |-> fallback_duration,
                   cta_start |-> None,
                   cta_duration |-> Zero,
                   total_duration |-> fallback_duration]]

\* ------------------------------------------- transcription cache (JSON files)

\* The transcription stored under key, or the fresh one when there is no file.
cached_or(key, fresh) ==
    IF key \in DOMAIN cache THEN cache[key] ELSE fresh

\* The cache directory after a miss on key wrote value (a hit writes nothing).
written(files, key, value) ==
    IF key \in DOMAIN files THEN files
    ELSE [k \in (DOMAIN files) \cup {key} |->
             IF k = key THEN value ELSE files[k]]

\* list.sort(key=lambda x: x['start']): stable, ascending by start.
RECURSIVE insert_by_start(_, _)
insert_by_start(x, sorted) ==
    IF sorted = <<>> THEN <<x>>
    ELSE IF Lt(Head(sorted).start, x.start)
         THEN <<Head(sorted)>> \o insert_by_start(x, Tail(sorted))
         ELSE <<x>> \o sorted

RECURSIVE sort_by_start(_)
sort_by_start(segments) ==
    IF segments = <<>> THEN <<>>
    ELSE insert_by_start(Head(segments), sort_by_start(Tail(segments)))

\* timing_info.get('cta_start', 0) of a timing_info built by the audio mixer.
cta_start_of(timing_info) == timing_info.cta_start

\* -------------------------------------- word_sync_service: word-level cues

\* The word entries of all segments of a transcription, in order.
RECURSIVE segment_words(_)
segment_words(segments) ==
    IF segments = <<>> THEN <<>>
    ELSE Head(segments).words \o segment_words(Tail(segments))

has_text(word_info) == strip(word_info.word) # <<>>

\* The timed words of a transcription that are not blank.
spoken_words(result) ==
    IF result = None THEN <<>>
    ELSE SelectSeq(segment_words(result.segments), has_text)

voiceover_word_segments(voiceover_result) ==
    LET ws == spoken_words(voiceover_result)
    IN  [i \in 1..Len(ws) |->
            [text |-> strip(ws[i].word), start |-> ws[i].start,
             end |-> ws[i].end, type |-> "voiceover"]]

cta_word_segments(cta_result, cta_start_time) ==
    LET ws == spoken_words(cta_result)
    IN  [i \in 1..Len(ws) |->
            [text |-> strip(ws[i].word),
             start |-> Add(ws[i].start, cta_start_time),
             end |-> Add(ws[i].end, cta_start_time), type |-> "cta"]]

\* Adding a missing cta_start (None) to a word's time raises TypeError.
word_level_raises(cta_path, timing_info, cta_result) ==
    /\ cta_path
    /\ timing_info # None
    /\ cta_start_of(timing_info) = None
    /\ spoken_words(cta_result) # <<>>

\* voiceover_result and cta_result are the transcriptions after the cache
\* lookup.
create_word_level_subtitles(voiceover_result, cta_path, timing_info, cta_result) ==
    LET word_segments ==
            voiceover_word_segments(voiceover_result)
            \o (IF cta_path /\ timing_info # None
                THEN cta_word_segments(cta_result, cta_start_of(timing_info))
                ELSE <<>>)
    IN  sort_by_start(word_segments)

\* Python's None where a stream type is expected.
NoType == "None"

default_display_max_words == 2

default_display_max_duration == Sec(2)

\* starts_new_group without the test for a change of stream type.
starts_new_group_any_type(current_type, current_group, word, max_words, max_duration) ==
    \/ Len(current_group) >= max_words
    \/ /\ current_group # <<>>
       /\ Gt(Sub(word.start, current_group[1].start), max_duration)

\* The test of group_words_for_display that closes the current group before
\* word is added.
starts_new_group(current_type, current_group, word, max_words, max_duration) ==
    \/ current_type # word.type
    \/ Len(current_group) >= max_words
    \/ /\ current_group # <<>>
       /\ Gt(Sub(word.start, current_group[1].start), max_duration)

\* The subtitle built from a group of words (the averaged confidence, which
\* no timing depends on, is left out).
display_group(current_group, current_type) ==
    [text |-> join([k \in 1..Len(current_group) |-> current_group[k].text]),
     start |-> current_group[1].start,
     end |-> current_group[Len(current_group)].end,
     type |-> current_type,
     word_count |-> Len(current_group),
     words |-> current_group]

\* One iteration of the loop of group_words_for_display; st holds the locals.
group_words_step(st, word, max_words, max_duration) ==
    LET closed ==
            IF starts_new_group(st.current_type, st.current_group, word,
                                max_words, max_duration)
               /\ st.current_group # <<>>
            THEN [st EXCEPT
                     !.grouped_segments =
                         Append(@, display_group(st.current_group,
                                                 st.current_type)),
                     !.current_group = <<>>]
            ELSE st
    IN  [closed EXCEPT !.current_group = Append(@, word),
                       !.current_type = word.type]

RECURSIVE group_words_loop(_, _, _, _)
group_words_loop(st, word_segments, max_words, max_duration) ==
    IF word_segments = <<>> THEN st
    ELSE group_words_loop(
             group_words_step(st, Head(word_segments), max_words,
                              max_duration),
             Tail(word_segments), max_words, max_duration)

group_words_for_display(word_segments, max_words, max_duration) ==
    LET st == group_words_loop(
                  [grouped_segments |-> <<>>, current_group |-> <<>>,
                   current_type |-> NoType],
                  word_segments, max_words, max_duration)
    IN  IF st.current_group # <<>>
        THEN Append(st.grouped_segments,
                    display_group(st.current_group, st.current_type))
        ELSE st.grouped_segments

\* --------------------------- enhanced_subtitle_service: pause-aware cues

min_pause_duration == Rat(3, 10)

\* ends_with_punctuation that takes only sentence ends for pauses.
ends_with_punctuation_sentence(word_text) ==
    /\ word_text # <<>>
    /\ word_text[Len(word_text)] \in {".", "!", "?"}

\* re.search(r'[,.!?;:]$', word_text)
ends_with_punctuation(word_text) ==
    /\ word_text # <<>>
    /\ word_text[Len(word_text)] \in {",", ".", "!", "?", ";", ":"}

\* ' '.join([w['word'].strip() for w in group])
joined_words(group) == join([k \in 1..Len(group) |-> strip(group[k].word)])

chunk_pause_after(segment) ==
    IF "pause_after" \in DOMAIN segment THEN segment.pause_after ELSE FALSE

\* The groups of one segment's words, a group ending at each pause.
RECURSIVE pause_groups(_, _, _)
pause_groups(words, i, current_group) ==
    IF i > Len(words) THEN <<>>
    ELSE LET word == words[i]
             group == Append(current_group, word)
             pause_detected ==
                 \/ i < Len(words)
                    /\ Ge(Sub(words[i + 1].start, word.end),
                          min_pause_duration)
                 \/ ends_with_punctuation(strip(word.word))
                 \/ i = Len(words)
         IN  IF pause_detected
             THEN <<[start |-> group[1].start,
                     end |-> group[Len(group)].end,
                     text |-> joined_words(group),
                     words |-> group,
                     type |-> "voiceover",
                     pause_after |-> i < Len(words)]>>
                  \o pause_groups(words, i + 1, <<>>)
             ELSE pause_groups(words, i + 1, group)

RECURSIVE detect_natural_pauses(_)
detect_natural_pauses(segments) ==
    IF segments = <<>> THEN <<>>
    ELSE (IF Head(segments).words = <<>> THEN <<Head(segments)>>
          ELSE pause_groups(Head(segments).words, 1, <<>>))
         \o detect_natural_pauses(Tail(segments))

\* The chunks of max_words words of one segment's words, from word i on.
RECURSIVE word_chunks(_, _, _)
word_chunks(segment, i, max_words) ==
    LET words == segment.words
        last == IF i + max_words - 1 < Len(words)
                THEN i + max_words - 1 ELSE Len(words)
        chunk_words == SubSeq(words, i, last)
    IN  IF i > Len(words) THEN <<>>
        ELSE <<[start |-> chunk_words[1].start,
                end |-> chunk_words[Len(chunk_words)].end,
                text |-> joined_words(chunk_words),
                words |-> chunk_words,
                type |-> IF "type" \in DOMAIN segment
                         THEN segment.type ELSE "voiceover",
                pause_after |-> (i - 1 + max_words >= Len(words))
                                /\ chunk_pause_after(segment)]>>
             \o word_chunks(segment, i + max_words, max_words)

RECURSIVE chunk_segments_into_words(_, _)
chunk_segments_into_words(segments, max_words) ==
    IF segments = <<>> THEN <<>>
    ELSE (IF Head(segments).words = <<>> THEN <<Head(segments)>>
          ELSE word_chunks(Head(segments), 1, max_words))
         \o chunk_segments_into_words(Tail(segments), max_words)

\* What is stored for a fresh transcription: the result with its
\* enhanced_segments, or null.
with_enhanced_segments(result) ==
    IF result = None THEN None
    ELSE [text |-> result.text, segments |-> result.segments,
          enhanced_segments |-> detect_natural_pauses(result.segments)]

\* segment with its type set (and, by offset, its times shifted).
typed_segment(segment, type, offset) ==
    [k \in (DOMAIN segment) \cup {"type"} |->
        IF k = "type" THEN type
        ELSE IF k = "start" THEN Add(segment.start, offset)
        ELSE IF k = "end" THEN Add(segment.end, offset)
        ELSE segment[k]]

\* The chunked cues of a stored transcription.
chunked_segments(result) ==
    chunk_segments_into_words(
        IF "enhanced_segments" \in DOMAIN result
        THEN result.enhanced_segments ELSE result.segments,
        default_max_words)

\* 'enhanced_segments' in None raises TypeError, and so does adding a missing
\* cta_start (None) to a cue's time.
pause_aware_raises(voiceover_result, cta_path, timing_info, cta_result) ==
    \/ voiceover_result = None
    \/ /\ cta_path
       /\ timing_info # None
       /\ \/ cta_result = None
          \/ /\ cta_start_of(timing_info) = None
             /\ chunked_segments(cta_result) # <<>>

\* voiceover_result and cta_result are the stored transcriptions after the
\* cache lookup.
create_pause_aware_subtitles(voiceover_result, cta_path, timing_info, cta_result) ==
    LET voiceover == chunked_segments(voiceover_result)
        cta == IF cta_path /\ timing_info # None
               THEN chunked_segments(cta_result) ELSE <<>>
        all_segments ==
            [i \in 1..Len(voiceover) |->
                typed_segment(voiceover[i], "voiceover", Zero)]
            \o [i \in 1..Len(cta) |->
                   typed_segment(cta[i], "cta", cta_start_of(timing_info))]
    IN  sort_by_start(all_segments)

\* ----------------------------- video_service: FFmpeg path, subtitle merge

\* The timing_info of mix_audio_with_bgm_and_cta: cta_start is the voice
\* duration when the CTA file was mixed in, None otherwise (and after the
\* fallback).
mix_timing_info(voice_duration, cta_path, cta_exists, mix_ok) ==
    [cta_start |-> IF mix_ok /\ cta_path /\ cta_exists
                   THEN voice_duration ELSE None]

\* The cue list create_video_with_subtitles_ffmpeg hands to segments_to_srt
\* (nothing is serialized when subtitle_segments is empty).
ffmpeg_subtitle_segments(subtitle_segments, voice_duration, cta_path, cta_exists, mix_ok, cta_result) ==
    LET timing_info == IF cta_path
                       THEN mix_timing_info(voice_duration, cta_path,
                                            cta_exists, mix_ok)
                       ELSE None
    IN  IF subtitle_segments = <<>> THEN <<>>
        ELSE IF cta_path /\ timing_info # None
                /\ cta_start_of(timing_info) # None
             THEN subtitle_segments
                  \o transcribe_cta_audio(cta_exists, cta_result,
                                          cta_start_of(timing_info))
             ELSE subtitle_segments

\* ------------------------------------------------------------ input domains

\* Sequences over S of length 0..n.
SeqUpTo(S, n) == UNION {[1..k -> S] : k \in 0..n}

\* Raw word texts as a transcriber reports them: whitespace only, a short
\* word with its leading space, a longer word with a trailing space.
WordTexts == {<<" ">>, <<" ", "a">>, <<"b", "b", "b", "b", " ">>}

TimeStamps == {Sec(k) : k \in 0..MaxTime}

\* Word entries with end >= start >= 0.
WordEntries ==
    {w \in [word : WordTexts, start : TimeStamps, end : TimeStamps] :
        Ge(w.end, w.start)}

\* (max_words, max_chars, max_duration) configurations: each >= 1.
SegmenterConfigs ==
    {[max_words |-> mw, max_chars |-> mc, max_duration |-> md] :
        mw \in 1..2, mc \in {3, 6}, md \in {Rat(1, 2), Sec(1)}}

\* ------------------------------------------------------ segmenter, as called

InitSegmenter ==
    /\ pc = "call"
    /\ \E ws \in SeqUpTo(WordEntries, MaxLen), c \in SegmenterConfigs :
          args = [fn |-> "split_segment_by_words", words |-> ws,
                  max_words |-> c.max_words, max_chars |-> c.max_chars,
                  max_duration |-> c.max_duration]
    /\ ret = <<>>
    /\ cache = NoCache

CallSplitSegmentByWords ==
    /\ pc = "call"
    /\ args.fn = "split_segment_by_words"
    /\ ret' = split_segment_by_words(args.words, args.max_chars,
                                     args.max_duration, args.max_words)
    /\ pc' = "return"
    /\ UNCHANGED <<args, cache>>

NextSegmenter == CallSplitSegmentByWords

SpecSegmenter == InitSegmenter /\ [][NextSegmenter]_vars

\* ----------------------------------------------------- normalizer, as called

\* Word entries of a transcription result: a blank word and a real one.
ResultWordEntries ==
    {w \in [word : {<<" ">>, <<" ", "a">>}, start : TimeStamps,
            end : TimeStamps] : Ge(w.end, w.start)}

\* Segment texts: blank, and three words.
SegmentTexts == {<<" ">>, <<" ", "a", " ", "a", " ", "a">>}

RECURSIVE MinStart(_)
MinStart(words) ==
    IF Len(words) = 1 THEN words[1].start
    ELSE Min(Head(words).start, MinStart(Tail(words)))

RECURSIVE MaxEnd(_)
MaxEnd(words) ==
    IF Len(words) = 1 THEN words[1].end
    ELSE Max(Head(words).end, MaxEnd(Tail(words)))

\* Segments with one or two word entries (the segment spans its words; its
\* own start and end are not read then), and segments without word entries.
SegmentEntries ==
    {[start |-> MinStart(ws), end |-> MaxEnd(ws), text |-> t, words |-> ws] :
        ws \in SeqUpTo(ResultWordEntries, 2) \ {<<>>}, t \in SegmentTexts}
    \cup
    {[start |-> s, end |-> e, text |-> t, words |-> <<>>] :
        t \in SegmentTexts,
        s \in TimeStamps, e \in TimeStamps} 

\* The transcriber's segment "act now" of half a second, without words.
ActNow ==
    [text |-> <<"a", "c", "t", " ", "n", "o", "w">>,
     segments |-> <<[start |-> Zero, end |-> Rat(1, 2),
                     text |-> <<"a", "c", "t", " ", "n", "o", "w">>,
                     words |-> <<>>]>>]

\* What transcribe_with_whisper returns: None, a text without segments, or
\* up to two segments.
WhisperResults ==
    {None, ActNow}
    \cup {[text |-> t, segments |-> <<>>] :
            t \in {<<" ">>, <<"a", " ", "a", " ", "a", " ", "a">>}}
    \cup {[text |-> <<"a">>, segments |-> segs] :
            segs \in SeqUpTo(SegmentEntries, 2) \ {<<>>}}

\* The max_words form field: absent, "0", "-1", "2", "12", "x".
MaxWordsFields ==
    {None, <<"0">>, <<"-", "1">>, <<"2">>, <<"1", "2">>, <<"x">>}

\* Transcriptions of an uploaded audio: None, text only, "act now", or one
\* segment.
UploadedResults ==
    {r \in WhisperResults : r = None \/ Len(r.segments) <= 1}

\* Words of a transcription text: plain, ending a sentence, ending a
\* clause, and a conjunction.
TimingWords == {<<"a">>, <<"a", ".">>, <<"a", ",">>, <<"A", "n", "d">>}

\* Transcription texts: blank, or up to MaxLen words after a leading space.
TimingTexts ==
    {<<" ">>}
    \cup {<<" ">> \o join(ws) : ws \in SeqUpTo(TimingWords, MaxLen) \ {<<>>}}

\* Durations of the audio the text is timed against.
TimingDurations == {Zero, Sec(1), Sec(2), Sec(5), Sec(10)}

InitNormalizer ==
    /\ pc = "call"
    /\ \/ \E r \in WhisperResults, mw \in 1..2 :
             args = [fn |-> "create_segments_from_whisper_result",
                     whisper_result |-> r, max_words |-> mw]
       \/ \E r \in WhisperResults, t \in {Zero, Sec(10)} :
             args = [fn |-> "transcribe_cta_audio", cta_exists |-> TRUE,
                     cta_result |-> r, cta_start_time |-> t]
       \/ args = [fn |-> "transcribe_cta_audio", cta_exists |-> FALSE,
                  cta_result |-> None, cta_start_time |-> Zero]
       \/ \E a \in BOOLEAN, f \in MaxWordsFields, r \in UploadedResults :
             args = [fn |-> "generate_subtitles", has_audio |-> a,
                     max_words_field |-> f, transcription |-> r]
       \/ \E t \in TimingTexts, d \in TimingDurations, mw \in 1..3 :
             args = [fn |-> "create_word_level_synchronized_timing",
                     text |-> t, duration |-> d, max_words |-> mw]
    /\ ret = <<>>
    /\ cache = NoCache

CallCreateSegmentsFromWhisperResult ==
    /\ pc = "call"
    /\ args.fn = "create_segments_from_whisper_result"
    /\ ret' = create_segments_from_whisper_result(
                  args.whisper_result, default_max_chars_per_segment,
                  default_max_duration, args.max_words)
    /\ pc' = "return"
    /\ UNCHANGED <<args, cache>>

CallTranscribeCtaAudio ==
    /\ pc = "call"
    /\ args.fn = "transcribe_cta_audio"
    /\ ret' = transcribe_cta_audio(args.cta_exists, args.cta_result,
                                   args.cta_start_time)
    /\ pc' = "return"
    /\ UNCHANGED <<args, cache>>

CallGenerateSubtitles ==
    /\ pc = "call"
    /\ args.fn = "generate_subtitles"
    /\ ret' = generate_subtitles(args.has_audio, args.max_words_field,
                                 args.transcription)
    /\ pc' = "return"
    /\ UNCHANGED <<args, cache>>

CallCreateWordLevelSynchronizedTiming ==
    /\ pc = "call"
    /\ args.fn = "create_word_level_synchronized_timing"
    /\ ret' = create_word_level_synchronized_timing(args.text, args.duration,
                                                    args.max_words)
    /\ pc' = "return"
    /\ UNCHANGED <<args, cache>>

NextNormalizer ==
    \/ CallCreateSegmentsFromWhisperResult
    \/ CallTranscribeCtaAudio
    \/ CallGenerateSubtitles
    \/ CallCreateWordLevelSynchronizedTiming

SpecNormalizer == InitNormalizer /\ [][NextNormalizer]_vars

\* ----------------------------------------------------- compositor, as called

\* Cues as the segmenter hands them on: end >= start >= 0; one text is blank.
Cues ==
    {c \in [start : TimeStamps, end : TimeStamps, text : {<<" ">>, <<"a">>}] :
        Ge(c.end, c.start)}

\* Primary cues estimated to end at 4.8 s.
CuesEndingAt48 ==
    <<[start |-> Sec(2), end |-> Rat(24, 10), text |-> <<"a">>],
      [start |-> Sec(4), end |-> Rat(48, 10), text |-> <<"a">>]>>

\* A cue that runs past a total duration of 10 s.
CuesAround10 ==
    <<[start |-> Rat(98, 10), end |-> Rat(103, 10), text |-> <<"a">>]>>

CueLists == SeqUpTo(Cues, MaxLen) \cup {CuesEndingAt48, CuesAround10}

\* Durations of the media a cue list is fitted to.
FinalDurations == {Zero, Rat(1, 2), Sec(1), Sec(6), Sec(10)}

\* Timed words of a voice or CTA recording.
SpokenWords ==
    {w \in [word : {<<"a">>}, start : TimeStamps, end : TimeStamps] :
        Ge(w.end, w.start)}

\* A transcription of one segment that spans the given words.
OneSegment(ws) ==
    [text |-> <<"a">>,
     segments |-> <<[start |-> MinStart(ws), end |-> MaxEnd(ws),
                     text |-> <<"a">>, words |-> ws]>>]

\* Two words one after the other, the first a fifth of a second long.
TwoWords ==
    <<[word |-> <<"a">>, start |-> Zero, end |-> Rat(1, 5)],
      [word |-> <<"a">>, start |-> Rat(1, 5), end |-> Sec(1)]>>

VoiceTranscriptions ==
    {None, OneSegment(TwoWords)}
    \cup {OneSegment(ws) : ws \in SeqUpTo(SpokenWords, MaxLen) \ {<<>>}}

\* CTA transcriptions are short: None, "act now", one word, or two words.
CtaTranscriptions ==
    {None, ActNow, OneSegment(TwoWords)}
    \cup {OneSegment(<<w>>) : w \in SpokenWords}

InitCompositor ==
    /\ pc = "call"
    /\ \/ \E segs \in CueLists, d \in FinalDurations :
             args = [fn |-> "scale_segments_to_duration", segments |-> segs,
                     target_duration |-> d]
       \/ \E vd \in {Zero, Rat(5, 4), Rat(5, 2)},
             vt \in VoiceTranscriptions, mw \in 1..2 :
             \/ args = [fn |-> "create_synchronized_subtitles",
                        voice_audio_duration |-> vd,
                        voice_transcription |-> vt, cta_exists |-> FALSE,
                        cta_audio_duration |-> Zero,
                        cta_transcription |-> None, max_words |-> mw]
             \/ \E ct \in CtaTranscriptions :
                   args = [fn |-> "create_synchronized_subtitles",
                           voice_audio_duration |-> vd,
                           voice_transcription |-> vt, cta_exists |-> TRUE,
                           cta_audio_duration |-> Rat(5, 4),
                           cta_transcription |-> ct, max_words |-> mw]
       \/ \E segs \in CueLists, d \in FinalDurations :
             args = [fn |-> "create_video_with_subtitles",
                     subtitle_segments |-> segs, final_duration |-> d]
       \/ \E segs \in CueLists, d \in FinalDurations :
             args = [fn |-> "create_video_with_subtitles_moviepy",
                     subtitle_segments |-> segs, final_duration |-> d]
    /\ ret = <<>>
    /\ cache = NoCache

CallScaleSegmentsToDuration ==
    /\ pc = "call"
    /\ args.fn = "scale_segments_to_duration"
    /\ ret' = scale_segments_to_duration(args.segments, args.target_duration)
    /\ pc' = "return"
    /\ UNCHANGED <<args, cache>>

CallCreateSynchronizedSubtitles ==
    /\ pc = "call"
    /\ args.fn = "create_synchronized_subtitles"
    /\ ret' = create_synchronized_subtitles(
                  args.voice_audio_duration, args.voice_transcription,
                  args.cta_exists, args.cta_audio_duration,
                  args.cta_transcription, args.max_words)
    /\ pc' = "return"
    /\ UNCHANGED <<args, cache>>

\* The subtitle part of create_video_with_subtitles: ret is the cue list it
\* renders.
CallCreateVideoWithSubtitles ==
    /\ pc = "call"
    /\ args.fn = "create_video_with_subtitles"
    /\ ret' = adjusted_segments(args.subtitle_segments, args.final_duration)
    /\ pc' = "return"
    /\ UNCHANGED <<args, cache>>

\* The subtitle part of create_video_with_subtitles_moviepy: ret is the list
\* of clips it composes, each with its start, end and text.
CallCreateVideoWithSubtitlesMoviepy ==
    /\ pc = "call"
    /\ args.fn = "create_video_with_subtitles_moviepy"
    /\ ret' = subtitle_clips(args.subtitle_segments, args.final_duration)
    /\ pc' = "return"
    /\ UNCHANGED <<args, cache>>

NextCompositor ==
    \/ CallScaleSegmentsToDuration
    \/ CallCreateSynchronizedSubtitles
    \/ CallCreateVideoWithSubtitles
    \/ CallCreateVideoWithSubtitlesMoviepy

SpecCompositor == InitCompositor /\ [][NextCompositor]_vars

\* ---------------------------------------------- specification: cue merging

\* Word texts of a recording: a word, a word before a comma, a blank.
MergeWordTexts == {<<"a">>, <<"a", ",">>, <<" ">>}

MergeWords ==
    {w \in [word : MergeWordTexts, start : TimeStamps, end : TimeStamps] :
        Ge(w.end, w.start)}

\* A text-only transcription of four words (no timestamps).
FourWords ==
    [text |-> <<"a", " ", "a", " ", "a", " ", "a">>, segments |-> <<>>]

\* A segment without word entries.
WordlessSegment ==
    [start |-> Zero, end |-> Sec(1), text |-> <<"a">>, words |-> <<>>]

\* Voiceover transcriptions: None, text only, one segment of up to two
\* words (spanning its words) or without words.
VoiceoverResults ==
    {None, FourWords,
     [text |-> <<"a">>, segments |-> <<WordlessSegment>>]}
    \cup {[text |-> <<"a">>,
           segments |-> <<[start |-> MinStart(ws), end |-> MaxEnd(ws),
                           text |-> <<"a">>, words |-> ws]>>] :
            ws \in SeqUpTo(MergeWords, 2) \ {<<>>}}

\* CTA transcriptions: None, "act now", one word, two words.
CtaResults ==
    {None, ActNow, OneSegment(TwoWords)}
    \cup {OneSegment(<<w>>) : w \in MergeWords}

\* timing_info: not given, from a mix without CTA, from a mix with the CTA
\* placed at 0 s or 1 s.
TimingInfos ==
    {None, [cta_start |-> None], [cta_start |-> Zero],
     [cta_start |-> Sec(1)]}

\* Primary cue lists as app.py hands them to the FFmpeg path: the segmenter's
\* output for a transcription.
PrimaryCueLists ==
    {create_segments_from_whisper_result(
         r, default_max_chars_per_segment, default_max_duration, mw) :
        r \in VoiceoverResults, mw \in 1..2}

\* The cache before a call: no file, or the voiceover's file from an earlier
\* run (null, or a transcription).
CachesOf(key, stored) == {NoCache, key :> None, key :> stored}

\* Three slow words spoken without a pause: 2 s each, back to back.
SlowWords ==
    <<[word |-> <<"a">>, start |-> Zero, end |-> Sec(2)],
      [word |-> <<"a">>, start |-> Sec(2), end |-> Sec(4)],
      [word |-> <<"a">>, start |-> Sec(4), end |-> Sec(6)]>>

\* A segment of five words for which the transcriber gave no word entries.
LongWordlessSegment ==
    [start |-> Zero, end |-> Sec(1),
     text |-> <<"a", " ", "a", " ", "a", " ", "a", " ", "a">>,
     words |-> <<>>]

\* A transcription segment spanning the given words.
SegmentOf(ws) ==
    [start |-> MinStart(ws), end |-> MaxEnd(ws), text |-> <<"a">>,
     words |-> ws]

\* Segment lists handed to detect_natural_pauses: one segment of up to
\* MaxLen words, the slow words, a segment without words, and pairs of
\* segments with and without words.
PauseSegmentLists ==
    {<<SegmentOf(ws)>> : ws \in SeqUpTo(MergeWords, MaxLen) \ {<<>>}}
    \cup {<<SegmentOf(SlowWords)>>, <<WordlessSegment>>,
          <<LongWordlessSegment>>}
    \cup {<<s1, s2>> : s1, s2 \in {WordlessSegment, SegmentOf(TwoWords)}}

\* Word segments as create_word_level_subtitles returns them: one word each,
\* of the voiceover or of the CTA.
WordSegments ==
    {w \in [text : {<<"a">>}, start : TimeStamps, end : TimeStamps,
            type : {"voiceover", "cta"}] : Ge(w.end, w.start)}

\* The word segments of three slow voiceover words, 2 s each.
SlowWordSegments == voiceover_word_segments(OneSegment(SlowWords))

\* Lists of word segments sorted by start, as the final sort of
\* create_word_level_subtitles leaves them.
WordSegmentLists ==
    {ws \in SeqUpTo(WordSegments, MaxLen) :
        \A i \in 1..(Len(ws) - 1) : Le(ws[i].start, ws[i + 1].start)}
    \cup {SlowWordSegments}

\* (max_words, max_duration) of group_words_for_display: the defaults (2 words,
\* 2.0 s) and tighter ones.
DisplayConfigs ==
    {[max_words |-> mw, max_duration |-> md] :
        mw \in 1..default_display_max_words,
        md \in {Rat(1, 2), default_display_max_duration}}

InitMerge ==
    /\ pc = "call"
    /\ ret = <<>>
    /\ \/ /\ \E v \in VoiceoverResults :
                \/ args = [fn |-> "create_word_level_subtitles",
                           voiceover_result |-> v, cta_path |-> FALSE,
                           timing_info |-> None, cta_result |-> None]
                \/ \E t \in TimingInfos, c \in CtaResults :
                      args = [fn |-> "create_word_level_subtitles",
                              voiceover_result |-> v, cta_path |-> TRUE,
                              timing_info |-> t, cta_result |-> c]
          /\ cache \in CachesOf("voiceover_wordlevel", OneSegment(TwoWords))
       \/ /\ \E v \in VoiceoverResults :
                \/ args = [fn |-> "create_pause_aware_subtitles",
                           voiceover_result |-> v, cta_path |-> FALSE,
                           timing_info |-> None, cta_result |-> None]
                \/ \E t \in TimingInfos, c \in CtaResults :
                      args = [fn |-> "create_pause_aware_subtitles",
                              voiceover_result |-> v, cta_path |-> TRUE,
                              timing_info |-> t, cta_result |-> c]
          /\ cache \in CachesOf("voiceover_pauses",
                                with_enhanced_segments(OneSegment(TwoWords)))
       \/ /\ \E p \in PrimaryCueLists, d \in TimeStamps :
                \/ args = [fn |-> "create_video_with_subtitles_ffmpeg",
                           subtitle_segments |-> p, voice_duration |-> d,
                           cta_path |-> FALSE, cta_exists |-> FALSE,
                           mix_ok |-> TRUE, cta_result |-> None]
                \/ \E e \in BOOLEAN, ok \in BOOLEAN, c \in CtaResults :
                      args = [fn |-> "create_video_with_subtitles_ffmpeg",
                              subtitle_segments |-> p, voice_duration |-> d,
                              cta_path |-> TRUE, cta_exists |-> e,
                              mix_ok |-> ok, cta_result |-> c]
          /\ cache = NoCache
       \/ /\ \E d \in TimeStamps, c \in {Rat(1, 2), Sec(1)},
                o \in {"mixed", "fallback", "last_resort", "unreadable"} :
                \/ args = [fn |-> "mix_audio_with_bgm_and_cta",
                           voice_duration |-> d, cta_path |-> FALSE,
                           cta_exists |-> FALSE, cta_load |-> "ok",
                           cta_duration |-> c, outcome |-> o]
                \/ \E e \in BOOLEAN,
                      l \in {"ok", "open_fails", "concat_fails"} :
                      args = [fn |-> "mix_audio_with_bgm_and_cta",
                              voice_duration |-> d, cta_path |-> TRUE,
                              cta_exists |-> e, cta_load |-> l,
                              cta_duration |-> c, outcome |-> o]
          /\ cache = NoCache
       \/ /\ \E segs \in PauseSegmentLists :
                args = [fn |-> "detect_natural_pauses", segments |-> segs]
          /\ cache = NoCache
       \/ /\ \E ws \in WordSegmentLists, c \in DisplayConfigs :
                args = [fn |-> "group_words_for_display",
                        word_segments |-> ws, max_words |-> c.max_words,
                        max_duration |-> c.max_duration]
          /\ cache = NoCache

CallCreateWordLevelSubtitles ==
    /\ pc = "call"
    /\ args.fn = "create_word_level_subtitles"
    /\ LET cta_given == args.cta_path /\ args.timing_info # None
           voiceover_result ==
               cached_or("voiceover_wordlevel", args.voiceover_result)
           cta_result ==
               IF cta_given THEN cached_or("cta_wordlevel", args.cta_result)
               ELSE None
           files == written(cache, "voiceover_wordlevel", voiceover_result)
       IN  /\ cache' = IF cta_given
                       THEN written(files, "cta_wordlevel", cta_result)
                       ELSE files
           /\ IF word_level_raises(args.cta_path, args.timing_info,
                                   cta_result)
              THEN pc' = "raise" /\ ret' = <<>>
              ELSE /\ pc' = "return"
                   /\ ret' = create_word_level_subtitles(
                                 voiceover_result, args.cta_path,
                                 args.timing_info, cta_result)
    /\ UNCHANGED args

CallCreatePauseAwareSubtitles ==
    /\ pc = "call"
    /\ args.fn = "create_pause_aware_subtitles"
    /\ LET cta_given == args.cta_path /\ args.timing_info # None
           voiceover_result ==
               cached_or("voiceover_pauses",
                         with_enhanced_segments(args.voiceover_result))
           cta_result ==
               IF cta_given
               THEN cached_or("cta_pauses",
                              with_enhanced_segments(args.cta_result))
               ELSE None
           files == written(cache, "voiceover_pauses", voiceover_result)
       IN  /\ cache' = IF cta_given /\ voiceover_result # None
                       THEN written(files, "cta_pauses", cta_result)
                       ELSE files
           /\ IF pause_aware_raises(voiceover_result, args.cta_path,
                                    args.timing_info, cta_result)
              THEN pc' = "raise" /\ ret' = <<>>
              ELSE /\ pc' = "return"
                   /\ ret' = create_pause_aware_subtitles(
                                 voiceover_result, args.cta_path,
                                 args.timing_info, cta_result)
    /\ UNCHANGED args

CallCreateVideoWithSubtitlesFfmpeg ==
    /\ pc = "call"
    /\ args.fn = "create_video_with_subtitles_ffmpeg"
    /\ ret' = ffmpeg_subtitle_segments(
                  args.subtitle_segments, args.voice_duration, args.cta_path,
                  args.cta_exists, args.mix_ok, args.cta_result)
    /\ pc' = "return"
    /\ UNCHANGED <<args, cache>>

CallMixAudioWithBgmAndCta ==
    /\ pc = "call"
    /\ args.fn = "mix_audio_with_bgm_and_cta"
    /\ ret' = mix_audio_with_bgm_and_cta(
                  args.voice_duration, args.cta_path, args.cta_exists,
                  args.cta_load, args.cta_duration, args.outcome)
    /\ pc' = "return"
    /\ UNCHANGED <<args, cache>>

CallDetectNaturalPauses ==
    /\ pc = "call"
    /\ args.fn = "detect_natural_pauses"
    /\ ret' = detect_natural_pauses(args.segments)
    /\ pc' = "return"
    /\ UNCHANGED <<args, cache>>

\* The pause-aware path after pause detection: the enhanced segments are
\* chunked with max_words = 3; ret becomes the chunked cue list.
ChunkEnhancedSegments ==
    /\ pc = "return"
    /\ args.fn = "detect_natural_pauses"
    /\ ret' = chunk_segments_into_words(ret, default_max_words)
    /\ pc' = "chunked"
    /\ UNCHANGED <<args, cache>>

CallGroupWordsForDisplay ==
    /\ pc = "call"
    /\ args.fn = "group_words_for_display"
    /\ ret' = group_words_for_display(args.word_segments, args.max_words,
                                      args.max_duration)
    /\ pc' = "return"
    /\ UNCHANGED <<args, cache>>

NextMerge ==
    \/ CallCreateWordLevelSubtitles
    \/ CallCreatePauseAwareSubtitles
    \/ CallCreateVideoWithSubtitlesFfmpeg
    \/ CallMixAudioWithBgmAndCta
    \/ CallDetectNaturalPauses
    \/ ChunkEnhancedSegments
    \/ CallGroupWordsForDisplay

SpecMerge == InitMerge /\ [][NextMerge]_vars

\* ------------------------- specification: concurrent use of one cache file

\* Two requests run the lookup of one cache file (same basename and mtime)
\* concurrently: os.path.exists, then either open(..., 'r') + json.load, or
\* transcribe_with_whisper, open(..., 'w') and json.dump.  Here cache maps the
\* key to the file's content, the chunks written so far; pc and ret are per
\* request.
Requests == {1, 2}

CacheKey == "voiceover_wordlevel"

\* The transcriptions a request can obtain for the file.
RaceResults == {None, FourWords}

\* json.dump: the chunks the encoder writes for a value.
json_dump(value) ==
    IF value = None THEN <<"null">>
    ELSE <<"{", "\"text\": \"a a a a\"", ", \"segments\": []", "}">>

\* The file's content is the complete serialization of a value.
is_json(content) == \E v \in RaceResults : json_dump(v) = content

\* json.load of a complete file.
json_load(content) == CHOOSE v \in RaceResults : json_dump(v) = content

\* File content after a chunk is written at position i (1-based): the chunk
\* replaces what was there, or extends the file (over a hole of zero bytes,
\* if the file was truncated in between).
write_at(content, i, chunk) ==
    [k \in 1..(IF i > Len(content) THEN i ELSE Len(content)) |->
        IF k = i THEN chunk
        ELSE IF k <= Len(content) THEN content[k] ELSE "\\0"]

InitRace ==
    /\ pc = [r \in Requests |-> "exists"]
    /\ \E fresh \in [Requests -> RaceResults] :
          args = [fn |-> "cache_lookup", fresh |-> fresh]
    /\ ret = [r \in Requests |-> [result |-> None, position |-> 0]]
    /\ cache \in {NoCache} \cup {CacheKey :> json_dump(v) : v \in RaceResults}

\* if os.path.exists(cache_file):
ExistsCheck(r) ==
    /\ pc[r] = "exists"
    /\ pc' = [pc EXCEPT ![r] = IF CacheKey \in DOMAIN cache
                                THEN "load" ELSE "transcribe"]
    /\ UNCHANGED <<args, ret, cache>>

\* with open(cache_file, 'r') as f: voiceover_result = json.load(f)
LoadCacheFile(r) ==
    /\ pc[r] = "load"
    /\ IF is_json(cache[CacheKey])
       THEN /\ ret' = [ret EXCEPT ![r].result = json_load(cache[CacheKey])]
            /\ pc' = [pc EXCEPT ![r] = "done"]
       ELSE /\ pc' = [pc EXCEPT ![r] = "raise"]
            /\ UNCHANGED ret
    /\ UNCHANGED <<args, cache>>

\* voiceover_result = transcribe_with_whisper(voiceover_path)
Transcribe(r) ==
    /\ pc[r] = "transcribe"
    /\ ret' = [ret EXCEPT ![r].result = args.fresh[r]]
    /\ pc' = [pc EXCEPT ![r] = "open"]
    /\ UNCHANGED <<args, cache>>

\* open(cache_file, 'w'): creates the file or truncates it.
OpenCacheFile(r) ==
    /\ pc[r] = "open"
    /\ cache' = (CacheKey :> <<>>)
    /\ ret' = [ret EXCEPT ![r].position = 1]
    /\ pc' = [pc EXCEPT ![r] = "dump"]
    /\ UNCHANGED args

\* json.dump(voiceover_result, f): the next chunk reaches the file; after the
\* last one the file is closed.
DumpChunk(r) ==
    /\ pc[r] = "dump"
    /\ LET chunks == json_dump(ret[r].result)
           i == ret[r].position
       IN  /\ cache' = (CacheKey :> write_at(cache[CacheKey], i, chunks[i]))
           /\ ret' = [ret EXCEPT ![r].position = i + 1]
           /\ pc' = [pc EXCEPT ![r] = IF i = Len(chunks)
                                      THEN "done" ELSE "dump"]
    /\ UNCHANGED args

NextRace ==
    \E r \in Requests :
        \/ ExistsCheck(r)
        \/ LoadCacheFile(r)
        \/ Transcribe(r)
        \/ OpenCacheFile(r)
        \/ DumpChunk(r)

SpecRace == InitRace /\ [][NextRace]_vars

\* ------------------------------------------------------------ cue measures

\* The words of a cue list: each cue's text split on whitespace, in order.
RECURSIVE CueWords(_)
CueWords(cues) ==
    IF cues = <<>> THEN <<>>
    ELSE split(Head(cues).text) \o CueWords(Tail(cues))

\* The trimmed, non-empty texts of a word list, in order.
RECURSIVE TrimmedTexts(_)
TrimmedTexts(words) ==
    IF words = <<>> THEN <<>>
    ELSE (IF strip(Head(words).word) # <<>>
          THEN <<strip(Head(words).word)>> ELSE <<>>)
         \o TrimmedTexts(Tail(words))

Duration(cue) == Sub(cue.end, cue.start)

Returned(fn) == pc = "return" /\ args.fn = fn

\* ------------------------------------------------------------------ claims

\* C1: the texts of the cues returned by split_segment_by_words, taken in
\* order and split on whitespace, are exactly the trimmed non-empty texts of
\* the input words in input order (nothing lost, duplicated or reordered).
C1_WordsPreserved ==
    Returned("split_segment_by_words") =>
        CueWords(ret) = TrimmedTexts(args.words)

\* C1 witness: a call with a blank word among three that returned two cues.
C1_Witness ==
    /\ Returned("split_segment_by_words")
    /\ Len(args.words) = 3
    /\ Len(TrimmedTexts(args.words)) = 2
    /\ Len(ret) = 2

\* The exemption of C2: a cue of a single word that alone exceeds max_chars
\* or max_duration.
SingleWordOverride(cue, max_chars, max_duration) ==
    /\ Len(split(cue.text)) = 1
    /\ \/ Len(cue.text) > max_chars
       \/ Gt(Duration(cue), max_duration)

WithinLimits(cue, max_chars, max_duration, max_words) ==
    /\ Len(split(cue.text)) <= max_words
    /\ Len(cue.text) <= max_chars
    /\ Le(Duration(cue), max_duration)

\* C2: every cue returned by split_segment_by_words has at most max_words
\* words, at most max_chars characters and lasts at most max_duration, unless
\* it is a single word that alone exceeds max_chars or max_duration.
C2_BoundedCues ==
    Returned("split_segment_by_words") =>
        \A i \in 1..Len(ret) :
            \/ WithinLimits(ret[i], args.max_chars, args.max_duration,
                            args.max_words)
            \/ SingleWordOverride(ret[i], args.max_chars, args.max_duration)

\* C2 witness: a returned list holding a full two-word cue within the limits
\* and a single-word cue that exceeds max_chars.
C2_Witness ==
    /\ Returned("split_segment_by_words")
    /\ args.max_words = 2
    /\ \E i, j \in 1..Len(ret) :
          /\ Len(split(ret[i].text)) = 2
          /\ WithinLimits(ret[i], args.max_chars, args.max_duration, 2)
          /\ SingleWordOverride(ret[j], args.max_chars, args.max_duration)
          /\ Len(ret[j].text) > args.max_chars

\* Cue starts are non-decreasing and no cue ends after the next one starts.
NonOverlapping(cues) ==
    \A i \in 1..(Len(cues) - 1) :
        /\ Le(cues[i].start, cues[i + 1].start)
        /\ Le(cues[i].end, cues[i + 1].start)

\* end >= start >= 0
ValidSpan(x) == Ge(x.start, Zero) /\ Ge(x.end, x.start)

\* Every segment and every word of the result satisfies end >= start >= 0.
ValidSpans(result) ==
    result # None =>
        \A i \in 1..Len(result.segments) :
            /\ ValidSpan(result.segments[i])
            /\ \A j \in 1..Len(result.segments[i].words) :
                   ValidSpan(result.segments[i].words[j])

\* x ends no later than y starts.
Before(x, y) == Le(x.end, y.start)

\* The result's time stamps are in chronological order: each segment ends no
\* later than the next one starts, each word lies inside its segment and ends
\* no later than the next word starts.
Chronological(result) ==
    result # None =>
        /\ \A i \in 1..(Len(result.segments) - 1) :
               Before(result.segments[i], result.segments[i + 1])
        /\ \A i \in 1..Len(result.segments) :
               LET seg == result.segments[i]
               IN  /\ \A j \in 1..Len(seg.words) :
                          /\ Le(seg.start, seg.words[j].start)
                          /\ Le(seg.words[j].end, seg.end)
                   /\ \A j \in 1..(Len(seg.words) - 1) :
                          Before(seg.words[j], seg.words[j + 1])

\* C3 as claimed: for any transcription result whose words and segments each
\* satisfy end >= start >= 0, the cues of create_segments_from_whisper_result
\* have non-decreasing starts and do not overlap.
C3_Original ==
    (Returned("create_segments_from_whisper_result")
        /\ ValidSpans(args.whisper_result))
    => NonOverlapping(ret)

\* C3, amended: for any transcription result whose words and segments each
\* satisfy end >= start >= 0 and are in chronological order, the cues of
\* create_segments_from_whisper_result have non-decreasing starts and do not
\* overlap (cue[i].end <= cue[i+1].start).
C3_MonotoneCues ==
    (Returned("create_segments_from_whisper_result")
        /\ ValidSpans(args.whisper_result)
        /\ Chronological(args.whisper_result))
    => NonOverlapping(ret)

\* C3 witness: a chronological result of two segments, one with and one
\* without word entries, that yields at least three cues over a positive span.
C3_Witness ==
    /\ Returned("create_segments_from_whisper_result")
    /\ args.whisper_result # None
    /\ ValidSpans(args.whisper_result)
    /\ Chronological(args.whisper_result)
    /\ Len(args.whisper_result.segments) = 2
    /\ \E i, j \in 1..2 :
          /\ args.whisper_result.segments[i].words # <<>>
          /\ args.whisper_result.segments[j].words = <<>>
    /\ Len(ret) >= 3
    /\ Lt(ret[1].start, ret[Len(ret)].end)

\* C6: transcribe_cta_audio returns, for every cue segmented from the CTA
\* transcription and in the same order, a cue with the same text, start and
\* end shifted by cta_start_time, and type 'cta'.
C6_CtaOffset ==
    (Returned("transcribe_cta_audio") /\ args.cta_exists) =>
        LET cta_segments ==
                create_segments_from_whisper_result(
                    args.cta_result, default_max_chars_per_segment,
                    default_max_duration, default_max_words)
        IN  /\ Len(ret) = Len(cta_segments)
            /\ \A i \in 1..Len(ret) :
                   /\ ret[i].text = cta_segments[i].text
                   /\ ret[i].start = Add(cta_segments[i].start,
                                         args.cta_start_time)
                   /\ ret[i].end = Add(cta_segments[i].end,
                                       args.cta_start_time)
                   /\ ret[i].type = "cta"

\* C6 witness: ("act now", 0.0, 0.5) with offset 10.0 became
\* ("act now", 10.0, 10.5).
C6_Witness ==
    /\ Returned("transcribe_cta_audio")
    /\ args.cta_result = ActNow
    /\ args.cta_start_time = Sec(10)
    /\ ret = <<[start |-> Sec(10), end |-> Rat(105, 10),
                text |-> <<"a", "c", "t", " ", "n", "o", "w">>,
                type |-> "cta"]>>

\* Target durations and total durations tried on an empty cue list.
SomeDurations == {Zero, Rat(1, 2), Sec(10)}

\* C10: for the transcription result None, create_segments_from_whisper_result
\* returns the empty list, and scale_segments_to_duration and the bounds
\* filter applied to that list return the empty list again.
C10_NoneGivesEmpty ==
    (Returned("create_segments_from_whisper_result")
        /\ args.whisper_result = None)
    => /\ ret = <<>>
       /\ \A d \in SomeDurations :
              /\ scale_segments_to_duration(ret, d) = <<>>
              /\ valid_segments(scale_segments_to_duration(ret, d), d) = <<>>

\* C10 witness: the call with None has returned.
C10_Witness ==
    /\ Returned("create_segments_from_whisper_result")
    /\ args.whisper_result = None
    /\ ret = <<>>

\* The total duration create_synchronized_subtitles clips against.
TotalAudioDuration ==
    IF args.cta_exists
    THEN Add(Div(args.voice_audio_duration, speed_factor),
             Div(args.cta_audio_duration, speed_factor))
    ELSE Div(args.voice_audio_duration, speed_factor)

\* Every cue of cues starts in [0, d) and ends by d; none is left for d <= 0.
ClippedTo(cues, d) ==
    /\ \A i \in 1..Len(cues) :
           /\ Le(Zero, cues[i].start)
           /\ Lt(cues[i].start, d)
           /\ Le(cues[i].end, d)
    /\ Le(d, Zero) => cues = <<>>

\* C4: after cues are clipped against total_duration D (the final filter of
\* create_synchronized_subtitles, the timing validation of
\* create_video_with_subtitles_moviepy), every surviving cue satisfies
\* 0 <= start < D and end <= D, and D <= 0 leaves no cue.
C4_ClippedToDuration ==
    /\ Returned("create_synchronized_subtitles") =>
           ClippedTo(ret, TotalAudioDuration)
    /\ Returned("create_video_with_subtitles_moviepy") =>
           ClippedTo(ret, args.final_duration)

\* C4 witness: create_synchronized_subtitles returned a voice cue and a CTA
\* cue, the last of which was trimmed to the total duration.
C4_Witness ==
    /\ Returned("create_synchronized_subtitles")
    /\ args.cta_exists
    /\ Len(ret) >= 2
    /\ ret[Len(ret)].end = TotalAudioDuration
    /\ LET cta == synchronized_cta_segments(
                      TRUE, args.cta_transcription,
                      Div(args.cta_audio_duration, speed_factor),
                      Div(args.voice_audio_duration, speed_factor),
                      args.max_words)
       IN  cta # <<>> /\ Gt(cta[Len(cta)].end, TotalAudioDuration)

\* C5: scale_segments_to_duration(segments, target) with last cue end E > 0
\* returns one cue per input cue, in order, with the same text and with start
\* and end multiplied by target / E.
C5_ScaledByRatio ==
    (Returned("scale_segments_to_duration")
        /\ args.segments # <<>>
        /\ Gt(args.segments[Len(args.segments)].end, Zero))
    => LET E == args.segments[Len(args.segments)].end
           factor == Div(args.target_duration, E)
       IN  /\ Len(ret) = Len(args.segments)
           /\ \A i \in 1..Len(ret) :
                  /\ ret[i].text = args.segments[i].text
                  /\ ret[i].start = Mul(args.segments[i].start, factor)
                  /\ ret[i].end = Mul(args.segments[i].end, factor)

\* C5 witness: with E = 4.8 and target = 6.0 the cue (2.0, 2.4) became
\* (2.5, 3.0).
C5_Witness ==
    /\ Returned("scale_segments_to_duration")
    /\ args.segments = CuesEndingAt48
    /\ args.target_duration = Sec(6)
    /\ ret[1] = [start |-> Rat(5, 2), end |-> Sec(3), text |-> <<"a">>]

\* No cue of cues ends after the next one starts.
NoOverlap(cues) ==
    \A i \in 1..(Len(cues) - 1) : Le(cues[i].end, cues[i + 1].start)

\* C8: if the segmented voice cues and the segmented CTA cues are each free
\* of overlap, the list returned by create_synchronized_subtitles has no
\* overlap between consecutive cues of the same stream.
C8_NoOverlapIntroduced ==
    Returned("create_synchronized_subtitles") =>
        LET segmented(t) ==
                create_segments_from_whisper_result(
                    t, default_max_chars_per_segment, default_max_duration,
                    args.max_words)
            voice_duration == Div(args.voice_audio_duration, speed_factor)
            voice == valid_segments(
                         synchronized_voice_segments(
                             args.voice_transcription, voice_duration,
                             args.max_words),
                         TotalAudioDuration)
            cta == valid_segments(
                       synchronized_cta_segments(
                           args.cta_exists, args.cta_transcription,
                           Div(args.cta_audio_duration, speed_factor),
                           voice_duration, args.max_words),
                       TotalAudioDuration)
        IN  (NoOverlap(segmented(args.voice_transcription))
                /\ NoOverlap(segmented(args.cta_transcription))
                /\ ret = voice \o cta)
            => NoOverlap(voice) /\ NoOverlap(cta)

\* C9: after composition against a total duration D >= 0.5, every surviving
\* cue lasts at least min_cue_duration = 0.5 s (a cue too close to D is
\* pulled back rather than left short).
C9_MinimumDuration ==
    /\ (Returned("create_video_with_subtitles")
           /\ Ge(args.final_duration, min_subtitle_duration))
       => \A i \in 1..Len(ret) :
              Ge(Duration(ret[i]), min_subtitle_duration)
    /\ (Returned("create_synchronized_subtitles")
           /\ Ge(TotalAudioDuration, min_subtitle_duration))
       => \A i \in 1..Len(ret) :
              Ge(Duration(ret[i]), min_subtitle_duration)

\* Each cue starts no earlier than the cue before it.
SortedByStart(cues) ==
    \A i \in 1..(Len(cues) - 1) : Le(cues[i].start, cues[i + 1].start)

\* C7: the cue list handed on after primary cues and offset CTA cues are
\* combined (create_pause_aware_subtitles, create_word_level_subtitles, the
\* extend step of create_video_with_subtitles_ffmpeg) is sorted ascending by
\* start.  For the FFmpeg path this is stated only where CTA cues were added
\* to primary cues that were themselves sorted.
C7_MergedSortedByStart ==
    /\ Returned("create_word_level_subtitles") => SortedByStart(ret)
    /\ Returned("create_pause_aware_subtitles") => SortedByStart(ret)
    /\ (Returned("create_video_with_subtitles_ffmpeg")
           /\ Len(ret) > Len(args.subtitle_segments)
           /\ SortedByStart(args.subtitle_segments))
       => SortedByStart(ret)

\* The trimmed, non-blank word texts of all segments, in segment order then
\* word order.
EntryTexts(result) == TrimmedTexts(segment_words(result.segments))

\* The entries of ws start in non-decreasing order.
StartsAscending(ws) ==
    \A i \in 1..(Len(ws) - 1) : Le(ws[i].start, ws[i + 1].start)

\* C11: when the segments of the transcription result carry word entries, the
\* word-level path emits every word entry whose trimmed text is non-empty
\* exactly once, in segment order then word order, with start and end taken
\* verbatim, whatever the segment's own text field contains.  Stated for
\* results all of whose segments carry word entries (and, for
\* create_word_level_subtitles, whose entries are in order of start).
C11_WordEntriesFlattened ==
    /\ (Returned("create_segments_from_whisper_result")
           /\ args.whisper_result # None
           /\ args.whisper_result.segments # <<>>
           /\ \A i \in 1..Len(args.whisper_result.segments) :
                  args.whisper_result.segments[i].words # <<>>)
       => CueWords(ret) = EntryTexts(args.whisper_result)
    /\ (Returned("create_word_level_subtitles")
           /\ ~args.cta_path
           /\ cache = ("voiceover_wordlevel" :> args.voiceover_result)
           /\ args.voiceover_result # None
           /\ StartsAscending(spoken_words(args.voiceover_result)))
       => LET ws == spoken_words(args.voiceover_result)
          IN  /\ Len(ret) = Len(ws)
              /\ \A i \in 1..Len(ws) :
                     /\ ret[i].text = strip(ws[i].word)
                     /\ ret[i].start = ws[i].start
                     /\ ret[i].end = ws[i].end

\* The number of words in the texts of the first n cues.
RECURSIVE WordsIn(_, _)
WordsIn(cues, n) ==
    IF n = 0 THEN 0 ELSE WordsIn(cues, n - 1) + Len(split(cues[n].text))

\* start_time + k * D / N
WordBoundary(segment, k, N) ==
    Add(segment.start,
        Div(Mul(Sec(k), Sub(segment.end, segment.start)), Sec(N)))

\* The transcription result is one segment without word entries whose text
\* holds at least one word.
OneWordlessSegment(result) ==
    /\ result # None
    /\ Len(result.segments) = 1
    /\ result.segments[1].words = <<>>
    /\ split(result.segments[1].text) # <<>>

\* C12: for a segment without word timestamps whose text splits into N >= 1
\* words, the cues hold at most max_words consecutive words each, and the cue
\* holding words K..L starts at segment.start + K*D/N and ends at
\* segment.start + (L+1)*D/N, D = segment.end - segment.start; the cues tile
\* [segment.start, segment.end].
C12_ProportionalTiling ==
    (Returned("create_segments_from_whisper_result")
        /\ OneWordlessSegment(args.whisper_result))
    => LET segment == args.whisper_result.segments[1]
           N == Len(split(segment.text))
       IN  /\ CueWords(ret) = split(segment.text)
           /\ \A i \in 1..Len(ret) :
                  /\ Len(split(ret[i].text)) \in 1..args.max_words
                  /\ ret[i].start =
                         WordBoundary(segment, WordsIn(ret, i - 1), N)
                  /\ ret[i].end = WordBoundary(segment, WordsIn(ret, i), N)
           /\ ret[1].start = segment.start
           /\ ret[Len(ret)].end = segment.end
           /\ \A i \in 1..(Len(ret) - 1) : ret[i].end = ret[i + 1].start

\* C12 witness: three words over [0, 1] with max_words = 2 gave the cues
\* (0, 2/3) and (2/3, 1).
C12_Witness ==
    /\ Returned("create_segments_from_whisper_result")
    /\ OneWordlessSegment(args.whisper_result)
    /\ args.max_words = 2
    /\ Len(ret) = 2
    /\ ret[1].start = Zero /\ ret[1].end = Rat(2, 3)
    /\ ret[2].start = Rat(2, 3) /\ ret[2].end = Sec(1)

\* C13: when segments is empty and full_text is non-empty,
\* create_segments_from_whisper_result paces the words synthetically: all
\* words of full_text appear once, in order, in cues of at most max_words
\* words; the first cue starts at 0 and every later cue starts at the previous
\* cue's end plus the inter-cue gap.
C13_SyntheticPacing ==
    (Returned("create_segments_from_whisper_result")
        /\ args.whisper_result # None
        /\ args.whisper_result.segments = <<>>
        /\ strip(args.whisper_result.text) # <<>>)
    => /\ CueWords(ret) = split(args.whisper_result.text)
       /\ \A i \in 1..Len(ret) :
              Len(split(ret[i].text)) \in 1..args.max_words
       /\ ret # <<>>
       /\ ret[1].start = Zero
       /\ \A i \in 1..(Len(ret) - 1) :
              ret[i + 1].start = Add(ret[i].end, segment_gap)

\* Every cue of cues ends after it starts.
PositiveDurations(cues) ==
    \A i \in 1..Len(cues) : Gt(cues[i].end, cues[i].start)

\* C14: every cue emitted by the segmenter (split_segment_by_words, and
\* split_long_segment through create_segments_from_whisper_result) satisfies
\* end > start, also when an input word or segment has end <= start.
C14_CuesEndAfterStart ==
    /\ Returned("split_segment_by_words") => PositiveDurations(ret)
    /\ (Returned("create_segments_from_whisper_result")
           /\ OneWordlessSegment(args.whisper_result))
       => PositiveDurations(ret)

\* C15: when two requests for the same cache key interleave their
\* exists-check, transcription and cache-write steps (both transcriptions
\* being the same), no request fails on a partially written file, every
\* request that has finished holds a complete transcription result, and once
\* both have finished the file holds one complete serialized result.
C15_CacheRaceHarmless ==
    (args.fn = "cache_lookup" /\ args.fresh[1] = args.fresh[2])
    => /\ \A r \in Requests :
              /\ pc[r] # "raise"
              /\ pc[r] = "done" => ret[r].result \in RaceResults
       /\ (\A r \in Requests : pc[r] \in {"done", "raise"})
              => CacheKey \in DOMAIN cache /\ is_json(cache[CacheKey])

\* C16: in every outcome of mix_audio_with_bgm_and_cta, timing_info.cta_start
\* is not None exactly when the CTA clip is part of the returned audio; then
\* cta_start is the voice duration and voice_duration + cta_duration =
\* total_duration; otherwise total_duration = voice_duration.
C16_TimingInfoConsistent ==
    Returned("mix_audio_with_bgm_and_cta") =>
        LET t == ret.timing_info
            cta_in_mix == \E i \in 1..Len(ret.final_audio) :
                              ret.final_audio[i] = "cta"
        IN  /\ (t.cta_start # None) <=> cta_in_mix
            /\ cta_in_mix =>
                   /\ t.cta_start = args.voice_duration
                   /\ Add(t.voice_duration, t.cta_duration) = t.total_duration
            /\ ~cta_in_mix => t.total_duration = t.voice_duration

\* The call of fn (without CTA) has ended, and the voiceover transcription it
\* used, fresh or from the cache file under key, was None.
EndedOnNone(fn, key) ==
    /\ pc # "call"
    /\ args.fn = fn
    /\ ~args.cta_path
    /\ key \in DOMAIN cache
    /\ cache[key] = None

\* C17: when the transcriber returned None for the voiceover,
\* create_pause_aware_subtitles and create_word_level_subtitles return an
\* empty cue list instead of raising, on the cache-miss call and on a later
\* call that hits the cache.
C17_NoneGivesEmptyCues ==
    /\ EndedOnNone("create_word_level_subtitles", "voiceover_wordlevel")
           => pc = "return" /\ ret = <<>>
    /\ EndedOnNone("create_pause_aware_subtitles", "voiceover_pauses")
           => pc = "return" /\ ret = <<>>

\* C18: scale_segments_to_duration called with target_duration equal to the
\* last cue's end (> 0), i.e. scaling by factor 1.0, returns cues whose start
\* and end are identical to the input's, in the same order.
C18_ScalingByOneIsIdentity ==
    (Returned("scale_segments_to_duration")
        /\ args.segments # <<>>
        /\ Gt(args.segments[Len(args.segments)].end, Zero)
        /\ args.target_duration = args.segments[Len(args.segments)].end)
    => /\ Len(ret) = Len(args.segments)
       /\ \A i \in 1..Len(ret) :
              /\ ret[i].start = args.segments[i].start
              /\ ret[i].end = args.segments[i].end

\* C18 witness: two different cues, the last ending at 1 s, were scaled to a
\* target of 1 s.
C18_Witness ==
    /\ Returned("scale_segments_to_duration")
    /\ Len(args.segments) = 2
    /\ args.segments[1] # args.segments[2]
    /\ args.segments[2].end = Sec(1)
    /\ args.target_duration = Sec(1)
    /\ Len(ret) = 2

\* C19: scale_segments_to_duration returns its input cue list unmodified (and
\* does not divide by zero) when the list is empty or the last cue's end is
\* <= 0, for any target_duration.
C19_UnscalableReturnedAsIs ==
    (Returned("scale_segments_to_duration")
        /\ \/ args.segments = <<>>
           \/ Le(args.segments[Len(args.segments)].end, Zero))
    => ret = args.segments

\* C19 witness: a list of two cues whose last cue ends at 0 came back for a
\* positive target.
C19_Witness ==
    /\ Returned("scale_segments_to_duration")
    /\ Len(args.segments) = 2
    /\ args.segments[2].end = Zero
    /\ Gt(args.target_duration, Zero)
    /\ ret = args.segments

\* C20: a max_words form field below 1 is rejected before segmenting: the
\* segmenting functions never run with max_words < 1, and no cue with empty
\* text results from such a value.
C20_MaxWordsValidated ==
    Returned("generate_subtitles") =>
        /\ \A i \in 1..Len(ret.segmented_with) : ret.segmented_with[i] >= 1
        /\ \A i \in 1..Len(ret.segments) : strip(ret.segments[i].text) # <<>>

\* The word entries split_segment_by_words does not skip, with trimmed text.
RECURSIVE KeptWords(_)
KeptWords(words) ==
    IF words = <<>> THEN <<>>
    ELSE (IF strip(Head(words).word) # <<>>
          THEN <<[Head(words) EXCEPT !.word = strip(Head(words).word)]>>
          ELSE <<>>)
         \o KeptWords(Tail(words))

\* The number of words in the cues before cue i.
RECURSIVE WordsBefore(_, _)
WordsBefore(cues, i) ==
    IF i <= 1 THEN 0
    ELSE WordsBefore(cues, i - 1) + Len(split(cues[i - 1].text))

\* The texts of words first..last joined by single spaces.
JoinedTexts(words, first, last) ==
    join([k \in 1..(last - first + 1) |-> words[first + k - 1].word])

\* The condition under which a cue of count words, with the given text and
\* start, is closed before word w.
ClosesBefore(count, text, start, w, max_chars, max_duration, max_words) ==
    \/ count = max_words
    \/ Len(text) + 1 + Len(w.word) > max_chars
    \/ Gt(Sub(w.end, start), max_duration)

\* C21: split_segment_by_words is greedy. Its cues are consecutive runs of
\* the non-blank words; a cue starts at its first word's start, ends at its
\* last word's end and joins the words with spaces; every later word of a cue
\* was appended because none of the three closing conditions held, and every
\* cue after the first starts at a word before which one of them held.
C21_GreedySplit ==
    Returned("split_segment_by_words") =>
        LET W == KeptWords(args.words)
            Closes(count, text, start, w) ==
                ClosesBefore(count, text, start, w, args.max_chars,
                             args.max_duration, args.max_words)
        IN  /\ CueWords(ret) = [k \in 1..Len(W) |-> W[k].word]
            /\ \A i \in 1..Len(ret) :
                  LET n == Len(split(ret[i].text))
                      first == WordsBefore(ret, i) + 1
                      last == first + n - 1
                  IN  /\ n >= 1
                      /\ ret[i].start = W[first].start
                      /\ ret[i].end = W[last].end
                      /\ ret[i].text = JoinedTexts(W, first, last)
                      /\ \A k \in (first + 1)..last :
                            ~Closes(k - first, JoinedTexts(W, first, k - 1),
                                    W[first].start, W[k])
                      /\ i > 1 =>
                            Closes(Len(split(ret[i - 1].text)),
                                   ret[i - 1].text, ret[i - 1].start,
                                   W[first])

\* C21 witness: three words with max_words = 2 gave a two-word cue, closed
\* only because it was full, and a one-word cue.
C21_Witness ==
    /\ Returned("split_segment_by_words")
    /\ args.max_words = 2
    /\ Len(KeptWords(args.words)) = 3
    /\ Len(ret) = 2
    /\ Len(split(ret[1].text)) = 2
    /\ ret[1].end = args.words[2].end
    /\ Len(ret[1].text) + 1 + Len(ret[2].text) <= args.max_chars
    /\ Le(Sub(ret[2].end, ret[1].start), args.max_duration)

\* The cue list create_synchronized_subtitles holds before its bounds filter.
UnfilteredCues ==
    LET voice_duration == Div(args.voice_audio_duration, speed_factor)
    IN  synchronized_voice_segments(args.voice_transcription, voice_duration,
                                    args.max_words)
        \o synchronized_cta_segments(
               args.cta_exists, args.cta_transcription,
               Div(args.cta_audio_duration, speed_factor), voice_duration,
               args.max_words)

\* C22: the bounds filter of create_synchronized_subtitles keeps a cue exactly
\* when start < total_duration and min(end, total_duration) > start; a kept
\* cue retains its start and text and gets end = min(end, total_duration);
\* kept cues stay in their relative order.
C22_BoundsFilter ==
    Returned("create_synchronized_subtitles") =>
        LET D == TotalAudioDuration
            Kept(c) == Lt(c.start, D) /\ Gt(Min(c.end, D), c.start)
            kept == SelectSeq(UnfilteredCues, Kept)
        IN  ret = [i \in 1..Len(kept) |->
                      [start |-> kept[i].start, end |-> Min(kept[i].end, D),
                       text |-> kept[i].text]]

\* C22 witness: of two or more cues before the filter, the first was kept as
\* it was and the last was trimmed to the total duration.
C22_Witness ==
    /\ Returned("create_synchronized_subtitles")
    /\ Len(UnfilteredCues) >= 2
    /\ Len(ret) = Len(UnfilteredCues)
    /\ ret[1] = UnfilteredCues[1]
    /\ Gt(UnfilteredCues[Len(ret)].end, TotalAudioDuration)
    /\ ret[Len(ret)].end = TotalAudioDuration

\* The bounds filter dropped every cue: the total duration is 0.
C22_AllDropped ==
    /\ Returned("create_synchronized_subtitles")
    /\ UnfilteredCues # <<>>
    /\ ret = <<>>

\* The positions of words after which a pause group ends: the gap to the
\* next word is at least min_pause_duration, or the trimmed word ends in
\* punctuation, or the word is the last of the segment.
GroupEnds(words) ==
    {i \in 1..Len(words) :
        \/ i < Len(words)
           /\ Ge(Sub(words[i + 1].start, words[i].end), min_pause_duration)
        \/ LET t == strip(words[i].word)
           IN  t # <<>> /\ t[Len(t)] \in {",", ".", "!", "?", ";", ":"}
        \/ i = Len(words)}

\* The k-th smallest member of a set of integers.
Nth(S, k) == CHOOSE i \in S : Cardinality({j \in S : j <= i}) = k

\* The pause groups of a word list: the runs of words between group ends,
\* each with its first word's start and its last word's end.
GroupsOf(words) ==
    LET E == GroupEnds(words)
    IN  [k \in 1..Cardinality(E) |->
            LET first == IF k = 1 THEN 1 ELSE Nth(E, k - 1) + 1
                last == Nth(E, k)
            IN  [words |-> SubSeq(words, first, last),
                 start |-> words[first].start, end |-> words[last].end]]

\* The pause groups of the segments that have words, segment after segment.
RECURSIVE ExpectedGroups(_)
ExpectedGroups(segments) ==
    IF segments = <<>> THEN <<>>
    ELSE (IF Head(segments).words = <<>> THEN <<>>
          ELSE GroupsOf(Head(segments).words))
         \o ExpectedGroups(Tail(segments))

\* The words, start and end of the entries of a cue list that have words.
RECURSIVE WordGroups(_)
WordGroups(cues) ==
    IF cues = <<>> THEN <<>>
    ELSE (IF Head(cues).words = <<>> THEN <<>>
          ELSE <<[words |-> Head(cues).words, start |-> Head(cues).start,
                  end |-> Head(cues).end]>>)
         \o WordGroups(Tail(cues))

\* C23: detect_natural_pauses partitions each segment's word list into
\* consecutive groups covering every word once and in order; a group ends
\* after word i exactly when the gap to word i+1 is >= min_pause_duration, or
\* word i's trimmed text ends in one of , . ! ? ; : or word i is the
\* segment's last; a group starts at its first word's start and ends at its
\* last word's end.
C23_PauseGroups ==
    Returned("detect_natural_pauses") =>
        WordGroups(ret) = ExpectedGroups(args.segments)

\* C23 witness: three words of one segment were split into two groups, the
\* first closed by a gap alone and holding two words.
C23_Witness ==
    /\ Returned("detect_natural_pauses")
    /\ Len(args.segments) = 1
    /\ Len(args.segments[1].words) = 3
    /\ Len(ret) = 2
    /\ Len(ret[1].words) = 2
    /\ ~ends_with_punctuation(strip(ret[1].words[2].word))

\* C24: every cue of the pause-aware path (chunk_segments_into_words applied
\* to the output of detect_natural_pauses) has at most max_words (3) words,
\* at most max_chars (45) characters and lasts at most max_duration (5 s),
\* unless it is a single word that alone exceeds a bound.
C24_PauseAwareCuesBounded ==
    (pc = "chunked" /\ args.fn = "detect_natural_pauses") =>
        \A i \in 1..Len(ret) :
            \/ WithinLimits(ret[i], default_max_chars_per_segment,
                            default_max_duration, default_max_words)
            \/ SingleWordOverride(ret[i], default_max_chars_per_segment,
                                  default_max_duration)

\* C25: whenever the transcription result handed to
\* create_segments_from_whisper_result has non-empty full text, the returned
\* cue list is non-empty, also when its segments list is non-empty but no
\* segment yields a cue.
C25_TextGivesCues ==
    (Returned("create_segments_from_whisper_result")
        /\ args.whisper_result # None
        /\ strip(args.whisper_result.text) # <<>>)
    => ret # <<>>

\* C26: every group returned by group_words_for_display has at most max_words
\* words, and lasts at most max_duration unless it consists of a single word.
C26_DisplayGroupsBounded ==
    Returned("group_words_for_display") =>
        \A i \in 1..Len(ret) :
            /\ Len(ret[i].words) <= args.max_words
            /\ \/ Len(ret[i].words) = 1
               \/ Le(Duration(ret[i]), args.max_duration)

\* The words of the groups of a cue list, group after group.
RECURSIVE GroupedWords(_)
GroupedWords(groups) ==
    IF groups = <<>> THEN <<>>
    ELSE Head(groups).words \o GroupedWords(Tail(groups))

\* C27: group_words_for_display partitions its start-sorted input into
\* consecutive groups (the groups' words, group after group, are the input
\* words in input order, and no group is empty), and all words of a group
\* have the type recorded in the group's type field.
C27_GroupsPartitionByType ==
    Returned("group_words_for_display") =>
        /\ GroupedWords(ret) = args.word_segments
        /\ \A i \in 1..Len(ret) :
              /\ ret[i].words # <<>>
              /\ \A k \in 1..Len(ret[i].words) :
                    ret[i].words[k].type = ret[i].type

\* C27 witness: a CTA word between two voiceover words that start no later
\* was put in a group of its own although two words fit in a group.
C27_Witness ==
    /\ Returned("group_words_for_display")
    /\ args.max_words = 2
    /\ Len(args.word_segments) = 3
    /\ args.word_segments[1].type = "voiceover"
    /\ args.word_segments[2].type = "cta"
    /\ args.word_segments[3].type = "voiceover"
    /\ args.word_segments[3].start = args.word_segments[1].start
    /\ Len(ret) = 3

\* C28: a failed transcription (the transcriber returned None) is never
\* stored in the transcription cache: no step creates a cache file that
\* holds None.
C28_FailureNotCached ==
    [][\A key \in DOMAIN cache' :
           key \notin DOMAIN cache => cache'[key] # None]_vars

\* The cues the segmenter yields for the voice transcription.
VoiceCues ==
    IF args.voice_transcription = None THEN <<>>
    ELSE create_segments_from_whisper_result(
             args.voice_transcription, default_max_chars_per_segment,
             default_max_duration, args.max_words)

\* The voice cues scaled to the voice stream's duration.
ScaledVoiceCues ==
    scale_segments_to_duration(
        VoiceCues, Div(args.voice_audio_duration, speed_factor))

\* The voice cues create_synchronized_subtitles returns: those that pass the
\* bounds filter.
KeptVoiceCues ==
    valid_segments(
        synchronized_voice_segments(
            args.voice_transcription,
            Div(args.voice_audio_duration, speed_factor), args.max_words),
        TotalAudioDuration)

\* C29: when the voice transcription yields cues whose last end is positive
\* and whose last cue is at least 0.5 s long (before and after the scaling and
\* speed adjustment, so that it is not extended to the minimum duration), the
\* last voice cue returned by create_synchronized_subtitles ends at
\* voice_duration, the instant used as cta_start_time.
C29_VoiceEndsAtVoiceDuration ==
    (Returned("create_synchronized_subtitles")
        /\ VoiceCues # <<>>
        /\ Gt(VoiceCues[Len(VoiceCues)].end, Zero)
        /\ Ge(Duration(VoiceCues[Len(VoiceCues)]), min_subtitle_duration)
        /\ Ge(Div(Duration(ScaledVoiceCues[Len(VoiceCues)]), speed_factor),
              min_subtitle_duration)
        /\ KeptVoiceCues # <<>>)
    => ret[Len(KeptVoiceCues)].end
           = Div(args.voice_audio_duration, speed_factor)

\* C30: for non-empty text and duration > 0, every cue returned by
\* create_word_level_synchronized_timing satisfies 0 <= start < end <=
\* duration, the first cue starts at 0, each cue starts where the previous one
\* ends, and the cue texts in order give back the words of text.
C30_TimingCuesTile ==
    (Returned("create_word_level_synchronized_timing")
        /\ strip(args.text) # <<>>
        /\ Gt(args.duration, Zero))
    => /\ ret # <<>>
       /\ ret[1].start = Zero
       /\ CueWords(ret) = split(args.text)
       /\ \A i \in 1..Len(ret) :
             /\ Le(Zero, ret[i].start)
             /\ Lt(ret[i].start, ret[i].end)
             /\ Le(ret[i].end, args.duration)
             /\ i > 1 => ret[i].start = ret[i - 1].end

====
